---- MODULE Spec2Model ----
(***************************************************************************)
(* The reconciliation jobs of vzdv-tasks (roster, activity, solo-cert      *)
(* sweep), their scheduling guards, and the local store they write.        *)
(*                                                                         *)
(* Each job is an async closure polled by the scheduler; it can be         *)
(* suspended at every `.await` (a store statement or an HTTP call), so     *)
(* every store statement is one step of the job that issues it.            *)
(***************************************************************************)
EXTENDS Integers, Sequences, FiniteSets, TLC

(***************************************************************************)
(* Bounds of the model.                                                    *)
(***************************************************************************)
NumCids == 2
MaxRequests == 2
MaxFaults == 1
MaxRuns == 2
MaxSoloCerts == 1
MaxNow == 3
MaxNoShows == 2

Cids == 1..NumCids

(***************************************************************************)
(* Small helpers on partial functions (tables keyed by cid or id).         *)
(***************************************************************************)
Without(f, k) == [x \in DOMAIN f \ {k} |-> f[x]]

With(f, k, v) == [x \in DOMAIN f \cup {k} |-> IF x = k THEN v ELSE f[x]]

SeqToSet(s) == {s[i] : i \in DOMAIN s}

\* every duplicate-free ordering of a finite set
Orderings(S) == {s \in [1..Cardinality(S) -> S] : SeqToSet(s) = S}

None == <<>>

Some(x) == <<x>>

(***************************************************************************)
(* The external registry (VATUSA).  A RosterMember carries many fields;    *)
(* the ones update_controller_record reads are kept.                       *)
(***************************************************************************)
ValidDates == {"2024-01-01T00:00:00Z"}

\* DateTime::parse_from_rfc3339(&controller.facility_join)
ParseRfc3339Ok(s) == s \in ValidDates

Role(f, r) == [facility |-> f, role |-> r]

\* The records the registry may report for a member.
MemberKinds ==
    { [facility |-> "ZDV", rating |-> 5, roles |-> <<>>,
       facility_join |-> "2024-01-01T00:00:00Z"],
      [facility |-> "ZDV", rating |-> 8,
       roles |-> <<Role("ZDV", "MTR"), Role("ZDV", "EC"), Role("ZAB", "TA")>>,
       facility_join |-> "2024-01-01T00:00:00Z"],
      [facility |-> "ZAB", rating |-> 8, roles |-> <<Role("ZDV", "MTR")>>,
       facility_join |-> "2024-01-01T00:00:00Z"],
      [facility |-> "ZDV", rating |-> 5, roles |-> <<>>,
       facility_join |-> "not-a-date"] }

\* fname / lname of the member with this cid, by their first letters
FirstName(c) == "A"

LastName(c) == "B"

RosterMember(c, k) ==
    [cid |-> c, first_name |-> FirstName(c), last_name |-> LastName(c),
     facility |-> k.facility, rating |-> k.rating, roles |-> k.roles,
     facility_join |-> k.facility_join]

\* what get_roster can return: the members of the facility, keyed by cid
RosterSnapshots ==
    UNION { [S -> MemberKinds] : S \in SUBSET Cids }

(***************************************************************************)
(* The controller.roles column is TEXT: a comma-delimited string of role   *)
(* codes.  The string is modelled by its tokens, a role code or the        *)
(* delimiter ","; the empty string is the empty token sequence.            *)
(***************************************************************************)
RECURSIVE SplitAcc(_, _, _)
SplitAcc(s, piece, acc) ==
    IF s = <<>> THEN Append(acc, piece)
    ELSE IF Head(s) = "," THEN SplitAcc(Tail(s), "", Append(acc, piece))
    ELSE SplitAcc(Tail(s), piece \o Head(s), acc)

\* cr.roles.split(','): the pieces between the delimiters; "" has the one piece ""
Split(s) == SplitAcc(s, "", <<>>)

RECURSIVE Join(_)
\* roles.join(","): the pieces with a delimiter between neighbours
Join(v) ==
    IF v = <<>> THEN <<>>
    ELSE LET first == IF Head(v) = "" THEN <<>> ELSE <<Head(v)>>
         IN  IF Len(v) = 1 THEN first ELSE first \o <<",">> \o Join(Tail(v))

roles_to_match == {"ATM", "DATM", "TA", "MTR"}

InstructorRatings == {8, 9, 10}

\* every role the registry reports is taken, whatever its facility and code
ExternalRolesMutant(member) ==
    LET names == [i \in DOMAIN member.roles |-> member.roles[i].role]
    IN  IF member.facility = "ZDV" /\ member.rating \in InstructorRatings
        THEN Append(names, "INS")
        ELSE names

\* roster.rs:19-38: the externally recognised roles of a member, in the
\* registry's order, plus INS for a home controller with an instructor rating
ExternalRoles(member) ==
    LET kept == SelectSeq(member.roles,
                          LAMBDA r : r.facility = "ZDV" /\ r.role \in roles_to_match)
        names == [i \in DOMAIN kept |-> kept[i].role]
    IN  IF member.facility = "ZDV" /\ member.rating \in InstructorRatings
        THEN Append(names, "INS")
        ELSE names

\* roster.rs:47-59: the Vec<String> that is joined and written.  For an
\* existing row the pieces of its roles string and the external roles are put
\* in a HashSet, whose iteration order is unspecified: every order is possible.
\* controller_record is None (no row) or Some(row).
\* the role codes of a stored roles value (roster.rs:49 `roles.split(',')`),
\* the empty piece of an empty value aside
RoleSet(roles) == SeqToSet(Split(roles)) \ {""}

MergedRoles(controller_record, roles) ==
    IF controller_record = None THEN {roles}
    ELSE Orderings(SeqToSet(Split(controller_record[1].roles)) \cup SeqToSet(roles))

(***************************************************************************)
(* Operating initials.  generate_operating_initials_for and                *)
(* retrieve_all_in_use_ois live in the crate root, which is not among the  *)
(* sources; they are modelled from the specification: a deterministic      *)
(* allocation of a two-letter identifier that is not in use.               *)
(***************************************************************************)
Letters == <<"A", "B">>

Candidates ==
    [i \in 1..(Len(Letters) * Len(Letters)) |->
        Letters[((i - 1) \div Len(Letters)) + 1] \o Letters[((i - 1) % Len(Letters)) + 1]]

\* Ok(initials) or Err when every candidate is taken
generate_operating_initials_for(in_use, first_name, last_name) ==
    LET direct == first_name \o last_name
        free == {i \in DOMAIN Candidates : Candidates[i] \notin in_use}
    IN  IF direct \notin in_use THEN [ok |-> TRUE, value |-> direct]
        ELSE IF free = {} THEN [ok |-> FALSE, value |-> ""]
        ELSE [ok |-> TRUE,
              value |-> Candidates[CHOOSE i \in free : \A j \in free : i <= j]]

\* the non-null operating_initials of the rows of a controller table
retrieve_all_in_use_ois(table) ==
    {table[c].operating_initials[1] :
        c \in {x \in DOMAIN table : table[x].operating_initials # None}}

(***************************************************************************)
(* State.                                                                  *)
(***************************************************************************)
VARIABLES
    controller,         \* controller table: cid -> row (no row: not in the domain)
    certification,      \* certification table: a set of rows
    ipc,                \* ipc table: a set of rows
    roster_semaphore,   \* permits available in roster_semaphore
    activity_semaphore, \* permits available in activity_semaphore
    rj,                 \* the two roster jobs: "partial" and "full"
    registry,           \* Some(roster) while the registry's roster is held fixed;
                        \* None: the registry may change between any two calls
    faultsLeft,         \* store statements that may still fail in this behaviour
    runs,               \* job runs started
    next_uuid,          \* the next request's uuid (each Uuid::new_v4 is fresh)
    attempts,           \* history: per uuid, the single-member syncs started for it
    ipcDeleteFailed,    \* history: a DELETE_IPC_MESSAGE statement has failed
    prev,               \* history, kept while the registry is held fixed: the
                        \* controller table when the last full sync returned Ok
    activity,           \* activity table: the rows in rowid order
    aj,                 \* the two activity jobs: "partial" and "full"
    solo_cert,          \* solo_cert table: a set of rows
    issued,             \* solo certs the site has issued since Init
    now,                \* the clock
    sj,                 \* the solo cert sweep
    no_show,            \* no_show table: a set of rows
    utc_now,            \* the clock as a date and hour
    nsj                 \* the no-show sweep

storeVars == <<controller, certification, ipc>>

guardVars == <<roster_semaphore, activity_semaphore>>

histVars == <<next_uuid, attempts, ipcDeleteFailed, prev>>

envVars == <<registry, runs>>

activityVars == <<activity, aj>>

sweepVars == <<solo_cert, issued, now, sj>>

noShowVars == <<no_show, utc_now, nsj>>

rosterJobVars == <<ipc, rj, registry, next_uuid, attempts, ipcDeleteFailed, prev>>

vars == <<controller, certification, ipc, roster_semaphore, activity_semaphore,
          rj, registry, faultsLeft, runs, next_uuid, attempts, ipcDeleteFailed, prev,
          activity, aj, solo_cert, issued, now, sj, no_show, utc_now, nsj>>

\* the cids get_roster may list, and the record the registry may hold for a cid
RosterAnswers == IF registry = None THEN SUBSET Cids ELSE {DOMAIN registry[1]}

ReportedKinds(c) ==
    IF registry = None \/ c \notin DOMAIN registry[1]
    THEN MemberKinds
    ELSE {registry[1][c]}

\* fetch_optional: Some(row) or None
Lookup(table, c) == IF c \in DOMAIN table THEN Some(table[c]) ELSE None

\* the outcomes of a store statement: it succeeds, or (while the behaviour
\* still has faults to spend) fails with an sqlx error
StoreOutcomes == IF faultsLeft > 0 THEN {TRUE, FALSE} ELSE {TRUE}

Spend(ok) == faultsLeft' = IF ok THEN faultsLeft ELSE faultsLeft - 1

\* the local state of a roster job between two ticks
IdleJob ==
    [pc |-> "idle", faulted |-> FALSE, fetched |-> FALSE, errored |-> {},
     todo |-> {}, ext_cids |-> {}, cur |-> None, record |-> None, new_ois |-> "",
     db_cids |-> {}, db_todo |-> {}, off |-> None, not_on_roster |-> {}, marked |-> {},
     msgs |-> <<>>, read |-> {}]

Fault(j, ok) == IF ok THEN j ELSE [j EXCEPT !.faulted = TRUE]

\* update_controller_record returns an Err for the member at hand; the caller
\* logs it (roster.rs:110-112 and 182-184).  The members whose processing
\* failed are recorded for update_roster.
Failed(n, j) ==
    IF n = "full" THEN [j EXCEPT !.errored = @ \cup {j.cur[1].cid}] ELSE j

\* update_roster / partial_update_roster returns Ok(()) or an error to the
\* job's closure in main
Returned(j, ok) ==
    [j EXCEPT !.pc = IF ok THEN "ret_ok" ELSE "ret_err",
              !.todo = {}, !.cur = None, !.record = None, !.new_ois = "",
              !.db_todo = {}, !.off = None, !.msgs = <<>>]

(***************************************************************************)
(* tokio::sync::Semaphore.                                                 *)
(***************************************************************************)
Acquire(permits) == permits - 1

\* a permit that is never given back
ReleaseMutant(permits) == permits

\* dropping a SemaphorePermit gives the permit back
Release(permits) == permits + 1

(***************************************************************************)
(* update_controller_record (roster.rs:16-99), run by both roster jobs.    *)
(***************************************************************************)
\* UPSERT_USER_TASK (sql.rs:441-457) on the table as it is when the statement runs
\* an INSERT OR REPLACE: the row is replaced by the values of the statement
UpsertUserTaskReplaceMutant(table, member, roles) ==
    With(table, member.cid,
         [rating |-> member.rating, home_facility |-> member.facility,
          is_on_roster |-> TRUE, join_date |-> Some(member.facility_join),
          roles |-> roles,
          operating_initials |-> IF member.cid \in DOMAIN table
                                 THEN table[member.cid].operating_initials ELSE None,
          status |-> None, discord_id |-> None, loa_until |-> None])

\* an upsert that marks only home controllers as on the roster
UpsertUserTaskMutant(table, member, roles) ==
    LET sets == [rating |-> member.rating, home_facility |-> member.facility,
                 is_on_roster |-> (member.facility = "ZDV"),
                 join_date |-> Some(member.facility_join),
                 roles |-> roles]
    IN  With(table, member.cid,
             IF member.cid \in DOMAIN table
             THEN [f \in DOMAIN table[member.cid] |->
                      IF f \in DOMAIN sets THEN sets[f] ELSE table[member.cid][f]]
             ELSE [rating |-> member.rating, home_facility |-> member.facility,
                   is_on_roster |-> (member.facility = "ZDV"),
                   join_date |-> Some(member.facility_join),
                   roles |-> roles, operating_initials |-> None,
                   status |-> None, discord_id |-> None, loa_until |-> None])

UpsertUserTask(table, member, roles) ==
    LET sets == [rating |-> member.rating, home_facility |-> member.facility,
                 is_on_roster |-> TRUE, join_date |-> Some(member.facility_join),
                 roles |-> roles]
    IN  With(table, member.cid,
             IF member.cid \in DOMAIN table
             THEN [f \in DOMAIN table[member.cid] |->
                      IF f \in DOMAIN sets THEN sets[f] ELSE table[member.cid][f]]
             ELSE [rating |-> member.rating, home_facility |-> member.facility,
                   is_on_roster |-> TRUE, join_date |-> Some(member.facility_join),
                   roles |-> roles, operating_initials |-> None,
                   status |-> None, discord_id |-> None, loa_until |-> None])

\* roster.rs:76: controllers new to the ARTCC also get operating initials
NeedsInitials(controller_record) ==
    controller_record = None \/ ~controller_record[1].is_on_roster

\* the full job's loop over roster_data (roster.rs:109-113): the next member,
\* in the order the registry listed them, or on to the removed-controller check
\* The record of each member is drawn when the loop reaches it: the job
\* reads each element of roster_data once, so this is the same as drawing the
\* whole Vec when get_roster returns.
FullNextMember(j) ==
    IF j.todo = {}
    THEN {[j EXCEPT !.pc = "db_cids", !.cur = None, !.record = None, !.new_ois = ""]}
    ELSE UNION {{[j EXCEPT !.pc = "ucr_get", !.cur = Some(RosterMember(c, k)),
                           !.todo = @ \ {c}, !.record = None, !.new_ois = ""]
                   : k \in ReportedKinds(c)} : c \in j.todo}

\* where update_controller_record returns to: the full job logs an error and
\* goes on (roster.rs:110-112); the partial job goes on to delete the message
\* (roster.rs:182-192)
AfterUcrMutant(n, j) ==
    IF n = "full"
    THEN (IF j.errored # {} THEN {Returned(j, FALSE)} ELSE FullNextMember(j))
    ELSE {[j EXCEPT !.pc = "ipc_delete", !.cur = None, !.record = None, !.new_ois = ""]}

AfterUcr(n, j) ==
    IF n = "full" THEN FullNextMember(j)
    ELSE {[j EXCEPT !.pc = "ipc_delete", !.cur = None, !.record = None, !.new_ois = ""]}

Return(n, j) == \E nj \in AfterUcr(n, j) : rj' = [rj EXCEPT ![n] = nj]

\* roster.rs:41-44  GET_CONTROLLER_BY_CID
UcrGet(n) ==
    /\ rj[n].pc = "ucr_get"
    /\ \E ok \in StoreOutcomes :
         /\ Spend(ok)
         /\ IF ok
            THEN rj' = [rj EXCEPT ![n].record = Lookup(controller, rj[n].cur[1].cid),
                                  ![n].pc = "ucr_upsert"]
            ELSE Return(n, Failed(n, Fault(rj[n], FALSE)))
    /\ UNCHANGED <<noShowVars, sweepVars, activityVars, storeVars, guardVars, envVars, histVars>>

\* roster.rs:46-74  merge the roles, UPSERT_USER_TASK
UcrUpsert(n) ==
    /\ rj[n].pc = "ucr_upsert"
    /\ LET j == rj[n]
           member == j.cur[1]
       IN  IF ~ParseRfc3339Ok(member.facility_join)
           THEN /\ Return(n, Failed(n, j))
                /\ UNCHANGED <<controller, faultsLeft>>
           ELSE \E ok \in StoreOutcomes, roles \in MergedRoles(j.record, ExternalRoles(member)) :
                  /\ Spend(ok)
                  /\ IF ~ok
                     THEN /\ Return(n, Failed(n, Fault(j, FALSE)))
                          /\ UNCHANGED controller
                     ELSE /\ controller' = UpsertUserTask(controller, member, Join(roles))
                          /\ IF NeedsInitials(j.record)
                             THEN rj' = [rj EXCEPT ![n].pc = "ucr_ois"]
                             ELSE Return(n, j)
    /\ UNCHANGED <<noShowVars, sweepVars, activityVars, certification, ipc, guardVars, envVars, histVars>>

\* roster.rs:77-82  read the initials in use and allocate new ones
UcrInitials(n) ==
    /\ rj[n].pc = "ucr_ois"
    /\ \E ok \in StoreOutcomes :
         /\ Spend(ok)
         /\ LET j == rj[n]
                new_ois == generate_operating_initials_for(
                               retrieve_all_in_use_ois(controller),
                               j.cur[1].first_name, j.cur[1].last_name)
            IN  IF ok /\ new_ois.ok
                THEN rj' = [rj EXCEPT ![n].pc = "ucr_set_ois", ![n].new_ois = new_ois.value]
                ELSE Return(n, Failed(n, Fault(j, ok)))
    /\ UNCHANGED <<noShowVars, sweepVars, activityVars, storeVars, guardVars, envVars, histVars>>

\* UPDATE_CONTROLLER_OIS (sql.rs:471)
UpdateControllerOis(table, cid, ois) ==
    IF cid \in DOMAIN table
    THEN [table EXCEPT ![cid].operating_initials = Some(ois)]
    ELSE table

\* roster.rs:83-87
UcrSetInitials(n) ==
    /\ rj[n].pc = "ucr_set_ois"
    /\ \E ok \in StoreOutcomes :
         /\ Spend(ok)
         /\ controller' = IF ok THEN UpdateControllerOis(controller, rj[n].cur[1].cid,
                                                         rj[n].new_ois)
                          ELSE controller
         /\ Return(n, IF ok THEN rj[n] ELSE Failed(n, Fault(rj[n], FALSE)))
    /\ UNCHANGED <<noShowVars, sweepVars, activityVars, certification, ipc, guardVars, envVars, histVars>>

(***************************************************************************)
(* The full roster job (main.rs:78-96) and update_roster                   *)
(* (roster.rs:102-165).                                                    *)
(***************************************************************************)
\* main.rs:88 `let _ = roster_semaphore.acquire().await.unwrap();` waits for a
\* permit; the pattern `_` binds nothing, so the permit is dropped at the end
\* of that statement, before update_roster is called.
\* roster.rs:107: get_roster fails (the whole sync fails) or returns a roster.
FullRosterTickMutant ==
    /\ rj["full"].pc = "idle"
    /\ runs < MaxRuns
    /\ runs' = runs + 1
    /\ roster_semaphore > 0
    /\ roster_semaphore' = Release(Acquire(roster_semaphore))
    /\ \E fetched \in BOOLEAN, listed \in RosterAnswers :
         \E nj \in FullNextMember([IdleJob EXCEPT
                                     !.fetched = fetched,
                                     !.todo = IF fetched THEN listed ELSE {},
                                     !.ext_cids = IF fetched THEN listed ELSE {}]) :
           rj' = [rj EXCEPT !["full"] = nj]
    /\ UNCHANGED <<noShowVars, sweepVars, activityVars, storeVars, activity_semaphore, registry, faultsLeft, histVars>>

FullRosterTick ==
    /\ rj["full"].pc = "idle"
    /\ runs < MaxRuns
    /\ runs' = runs + 1
    /\ roster_semaphore > 0
    /\ roster_semaphore' = Release(Acquire(roster_semaphore))
    /\ \E fetched \in BOOLEAN :
         IF ~fetched
         THEN rj' = [rj EXCEPT !["full"] = Returned(IdleJob, FALSE)]
         ELSE \E listed \in RosterAnswers :
                \E nj \in FullNextMember([IdleJob EXCEPT !.fetched = TRUE,
                                                         !.todo = listed,
                                                         !.ext_cids = listed]) :
                  rj' = [rj EXCEPT !["full"] = nj]
    /\ UNCHANGED <<noShowVars, sweepVars, activityVars, storeVars, activity_semaphore, registry, faultsLeft, histVars>>

\* roster.rs:126 `!current_controllers.contains(&cid)` over the rows read
NotOnRosterMutant(db_controllers, current_controllers) == db_controllers

NotOnRoster(db_controllers, current_controllers) ==
    {cid \in db_controllers : cid \notin current_controllers}

\* the loop over db_controllers (roster.rs:124-158): rows whose cid is in the
\* fetched roster are passed over; the next other row is marked off-roster
FullNextOff(j) ==
    IF NotOnRoster(j.db_todo, j.ext_cids) = {}
    THEN {Returned(j, TRUE)}
    ELSE {[j EXCEPT !.pc = "off_mark", !.off = Some(c), !.db_todo = @ \ {c}]
            : c \in NotOnRoster(j.db_todo, j.ext_cids)}

\* roster.rs:120-122  GET_ALL_CONTROLLER_CIDS
FullDbCids ==
    /\ rj["full"].pc = "db_cids"
    /\ \E ok \in StoreOutcomes :
         /\ Spend(ok)
         /\ IF ~ok
            THEN rj' = [rj EXCEPT !["full"] = Returned(Fault(rj["full"], FALSE), FALSE)]
            ELSE \E nj \in FullNextOff([rj["full"] EXCEPT !.db_cids = DOMAIN controller,
                                                          !.db_todo = DOMAIN controller]) :
                   rj' = [rj EXCEPT !["full"] = nj]
    /\ UNCHANGED <<noShowVars, sweepVars, activityVars, storeVars, guardVars, envVars, histVars>>

\* UPDATE_REMOVED_FROM_ROSTER (sql.rs:470)
UpdateRemovedFromRosterMutant(table, cid) ==
    IF cid \in DOMAIN table
    THEN [table EXCEPT ![cid].is_on_roster = FALSE, ![cid].home_facility = "",
                       ![cid].join_date = None, ![cid].operating_initials = None,
                       ![cid].roles = <<>>]
    ELSE table

UpdateRemovedFromRoster(table, cid) ==
    IF cid \in DOMAIN table
    THEN [table EXCEPT ![cid].is_on_roster = FALSE, ![cid].home_facility = "",
                       ![cid].join_date = None, ![cid].operating_initials = None]
    ELSE table

\* roster.rs:126-134: the cid is noted as not on the roster and the row
\* updated; a failure of the statement is logged and the loop goes on
FullOffMark ==
    /\ rj["full"].pc = "off_mark"
    /\ \E ok \in StoreOutcomes :
         /\ Spend(ok)
         /\ LET j == rj["full"]
                cid == j.off[1]
            IN  /\ controller' = IF ok THEN UpdateRemovedFromRoster(controller, cid)
                                 ELSE controller
                /\ rj' = [rj EXCEPT !["full"] =
                            [Fault(j, ok) EXCEPT
                               !.pc = "off_certs",
                               !.not_on_roster = @ \cup {cid},
                               !.marked = IF ok THEN @ \cup {cid} ELSE @]]
    /\ UNCHANGED <<noShowVars, sweepVars, activityVars, certification, ipc, guardVars, envVars, histVars>>

\* GET_ALL_CERTIFICATIONS_FOR (sql.rs:486)
CertificationsFor(cid) == {c \in certification : c.cid = cid}

\* roster.rs:136-140: read the controller's certifications (a failure ends the
\* sync with the error); they are stripped when `certs.is_empty()`
FullOffCerts ==
    /\ rj["full"].pc = "off_certs"
    /\ \E ok \in StoreOutcomes :
         /\ Spend(ok)
         /\ LET j == rj["full"]
            IN  IF ~ok
                THEN rj' = [rj EXCEPT !["full"] = Returned(Fault(j, FALSE), FALSE)]
                ELSE IF CertificationsFor(j.off[1]) = {}
                THEN rj' = [rj EXCEPT !["full"].pc = "off_delete"]
                ELSE \E nj \in FullNextOff(j) : rj' = [rj EXCEPT !["full"] = nj]
    /\ UNCHANGED <<noShowVars, sweepVars, activityVars, storeVars, guardVars, envVars, histVars>>

\* roster.rs:149-155  DELETE_CERTIFICATIONS_FOR; a failure is logged
FullOffDelete ==
    /\ rj["full"].pc = "off_delete"
    /\ \E ok \in StoreOutcomes :
         /\ Spend(ok)
         /\ certification' = IF ok THEN certification \ CertificationsFor(rj["full"].off[1])
                             ELSE certification
         /\ \E nj \in FullNextOff(Fault(rj["full"], ok)) : rj' = [rj EXCEPT !["full"] = nj]
    /\ UNCHANGED <<noShowVars, sweepVars, activityVars, controller, ipc, guardVars, envVars, histVars>>

(***************************************************************************)
(* The partial roster job (main.rs:58-76) and partial_update_roster        *)
(* (roster.rs:167-196).                                                    *)
(***************************************************************************)
\* the rows of the ipc table the loop acts on, in the order they were read
SyncMessages(order) == SelectSeq(order, LAMBDA m : m.action = "VATUSA_SYNC")

\* format!("{cid}") of post_vatusa_sync and message.data.parse() of the job
CidText(c) == ToString(c)

ParseCid(text) == CHOOSE c \in Cids : CidText(c) = text

\* the loop of partial_update_roster (roster.rs:180-194) at the next message:
\* none is left and the run ends, or partial_update_roster_single
\* (roster.rs:167-171) asks the registry for the member, which fails or
\* answers with the member's record
PartialNextMessage(j) ==
    IF j.msgs = <<>>
    THEN /\ rj' = [rj EXCEPT !["partial"] = Returned(j, TRUE)]
         /\ UNCHANGED attempts
    ELSE LET message == Head(j.msgs)
             cid == ParseCid(message.data)
         IN  /\ attempts' = [attempts EXCEPT ![message.uuid] = @ + 1]
             /\ \E fetched \in BOOLEAN :
                  IF ~fetched
                  THEN rj' = [rj EXCEPT !["partial"] = [j EXCEPT !.pc = "ipc_delete"]]
                  ELSE \E k \in ReportedKinds(cid) :
                         rj' = [rj EXCEPT !["partial"] =
                                  [j EXCEPT !.pc = "ucr_get",
                                            !.cur = Some(RosterMember(cid, k))]]

\* main.rs:68 `if roster_semaphore.try_acquire().is_err() { return; }`: with no
\* permit the tick returns; a permit that is got is a temporary of the
\* condition and is dropped before partial_update_roster is called.
\* roster.rs:179: GET_IPC_MESSAGES
PartialRosterTick ==
    /\ rj["partial"].pc = "idle"
    /\ runs < MaxRuns
    /\ runs' = runs + 1
    /\ IF roster_semaphore = 0
       THEN UNCHANGED <<roster_semaphore, faultsLeft, rj, attempts>>
       ELSE /\ roster_semaphore' = Release(Acquire(roster_semaphore))
            /\ \E ok \in StoreOutcomes :
                 /\ Spend(ok)
                 /\ IF ~ok
                    THEN /\ rj' = [rj EXCEPT !["partial"] =
                                      Returned(Fault(IdleJob, FALSE), FALSE)]
                         /\ UNCHANGED attempts
                    ELSE \E order \in Orderings(ipc) :
                           PartialNextMessage([IdleJob EXCEPT
                                                 !.msgs = SyncMessages(order),
                                                 !.read = {m.uuid : m \in ipc}])
    /\ UNCHANGED <<noShowVars, sweepVars, activityVars, storeVars, activity_semaphore, registry, next_uuid, ipcDeleteFailed, prev>>

\* DELETE_IPC_MESSAGE (sql.rs:604)
DeleteIpcMessageMutant(table, uuid) == table

DeleteIpcMessage(table, uuid) == {m \in table : m.uuid # uuid}

\* roster.rs:185-192  DELETE_IPC_MESSAGE, whatever the sync of the member
\* returned; a failure of the statement is logged
PartialIpcDelete ==
    /\ rj["partial"].pc = "ipc_delete"
    /\ \E ok \in StoreOutcomes :
         /\ Spend(ok)
         /\ LET j == Fault(rj["partial"], ok)
                message == Head(j.msgs)
            IN  /\ ipc' = IF ok THEN DeleteIpcMessage(ipc, message.uuid) ELSE ipc
                /\ ipcDeleteFailed' = (ipcDeleteFailed \/ ~ok)
                /\ PartialNextMessage([j EXCEPT !.msgs = Tail(j.msgs)])
    /\ UNCHANGED <<noShowVars, sweepVars, activityVars, controller, certification, guardVars, envVars, next_uuid, prev>>

\* main.rs:69-73 and 89-93: the closure logs the result and the job is over
\* until its next tick
JobReturn(n) ==
    /\ rj[n].pc \in {"ret_ok", "ret_err"}
    /\ rj' = [rj EXCEPT ![n] = IdleJob]
    /\ prev' = IF n = "full" /\ rj[n].pc = "ret_ok" /\ registry # None
               THEN Some(controller) ELSE prev
    /\ UNCHANGED <<noShowVars, sweepVars, activityVars, storeVars, guardVars, envVars, faultsLeft, next_uuid, attempts,
                   ipcDeleteFailed>>

(***************************************************************************)
(* The site: post_vatusa_sync (controller.rs:1136-1176) stores a request.  *)
(***************************************************************************)
PostVatusaSync ==
    /\ next_uuid <= MaxRequests
    /\ \E cid \in Cids :
         ipc' = ipc \cup {[uuid |-> next_uuid, action |-> "VATUSA_SYNC",
                           data |-> CidText(cid)]}
    /\ next_uuid' = next_uuid + 1
    /\ UNCHANGED <<noShowVars, sweepVars, activityVars, controller, certification, guardVars, rj, envVars, faultsLeft,
                   attempts, ipcDeleteFailed, prev>>

(***************************************************************************)
(* The site: post_set_roles (controller.rs:898-971), by which a staff      *)
(* member sets the roles of a controller.                                  *)
(***************************************************************************)
\* roles.split_terminator(','): the pieces of split, a last empty piece aside
SplitTerminator(s) ==
    LET pieces == Split(s)
    IN  IF pieces[Len(pieces)] = "" THEN SubSeq(pieces, 1, Len(pieces) - 1) ELSE pieces

\* roles_to_set (controller.rs:40-84): the roles the acting staff member may
\* set: a TA the role MTR, an administrator every staff role
RolesCanSet ==
    { {"MTR"},
      {"ATM", "DATM", "TA", "FE", "EC", "WM", "AFE", "AEC", "AWM", "INS", "MTR"} }

\* the keys of the submitted form
RoleForms == SUBSET {"EC", "MTR"}

\* controller.rs:926-950: existing roles the user cannot set are kept, those
\* the user can set are kept when the form still has them, and the roles of
\* the form the user can set are added; the result is collected in a HashSet
ResolvedRoles(existing_roles, roles_can_set, roles_to_set) ==
    {r \in SeqToSet(existing_roles) : r \notin roles_can_set \/ r \in roles_to_set}
        \cup (roles_to_set \cap roles_can_set)

\* controller.rs:913-956: GET_CONTROLLER_BY_CID, then SET_CONTROLLER_ROLES
\* (sql.rs:482) with the resolved roles joined in the HashSet's order
PostSetRoles ==
    /\ \E cid \in DOMAIN controller, roles_can_set \in RolesCanSet,
          roles_to_set \in RoleForms :
         \E new_roles \in Orderings(ResolvedRoles(SplitTerminator(controller[cid].roles),
                                                  roles_can_set, roles_to_set)) :
           /\ Join(new_roles) # controller[cid].roles
           /\ controller' = [controller EXCEPT ![cid].roles = Join(new_roles)]
    /\ UNCHANGED <<noShowVars, sweepVars, activityVars, certification, ipc, guardVars, rj, envVars,
                   faultsLeft, histVars>>

(***************************************************************************)
(* Activity (vzdv-tasks/src/activity.rs).  A session of the VATSIM API     *)
(* carries its callsign, the month of its start (`session.start[0..7]`)    *)
(* and minutes_on_callsign, a decimal number of minutes that is counted    *)
(* here in half minutes ("1.5" is 3).                                      *)
(***************************************************************************)
FacilityCallsigns == {"DEN_TWR"}

position_in_facility_airspace(callsign) == callsign \in FacilityCallsigns

Session(callsign, month, minutes) ==
    [callsign |-> callsign, start |-> month, minutes_on_callsign |-> minutes]

\* what get_atc_sessions can return for a controller
SessionLists ==
    { <<>>,
      <<Session("DEN_TWR", "2024-01", "1.5")>>,
      <<Session("DEN_TWR", "2024-01", "1.5"), Session("LAX_TWR", "2024-02", "2"),
        Session("DEN_TWR", "2024-01", "1")>>,
      <<Session("DEN_TWR", "2024-01", "0.5"), Session("DEN_TWR", "2024-02", "2")>>,
      <<Session("DEN_TWR", "2024-01", "n/a"), Session("DEN_TWR", "2024-02", "2")>> }

\* chrono::Utc::now().format("%Y-%m-01"), its first seven characters
start_of_month == "2024-02"

\* str::parse::<f32>: the number of half minutes the text stands for, or None
\* for a text that is not a number
ParseF32(text) ==
    CASE text = "0.5" -> Some(1)
      [] text = "1"   -> Some(2)
      [] text = "1.5" -> Some(3)
      [] text = "2"   -> Some(4)
      [] OTHER        -> None

\* `minutes_on_callsign.parse::<f32>().unwrap() * 60.0`
Seconds(session) == ParseF32(session.minutes_on_callsign)[1] * 30

\* Result::unwrap panics on an Err: the loops of activity.rs:47-59 and
\* activity.rs:123-128 reach a session in the facility whose
\* minutes_on_callsign does not parse
UnwrapPanics(sessions) ==
    \E i \in DOMAIN sessions :
        /\ position_in_facility_airspace(sessions[i].callsign)
        /\ ParseF32(sessions[i].minutes_on_callsign) = None

\* activity.rs:46-59: the seconds of the sessions in the facility, by month
RECURSIVE SecondsMap(_, _)
SecondsMap(sessions, seconds_map) ==
    IF sessions = <<>> THEN seconds_map
    ELSE LET session == Head(sessions)
             month == session.start
         IN  IF ~position_in_facility_airspace(session.callsign)
             THEN SecondsMap(Tail(sessions), seconds_map)
             ELSE SecondsMap(Tail(sessions),
                     With(seconds_map, month,
                          IF month \in DOMAIN seconds_map
                          THEN seconds_map[month] + Seconds(session)
                          ELSE Seconds(session)))

\* `(seconds / 60.0).round() as u32`: f32::round rounds half away from zero
RoundMinutes(seconds) == (seconds + 30) \div 60

\* activity.rs:122-128: the seconds of all the sessions in the facility
RECURSIVE Counter(_)
Counter(sessions) ==
    IF sessions = <<>> THEN 0
    ELSE (IF position_in_facility_airspace(Head(sessions).callsign)
          THEN Seconds(Head(sessions)) ELSE 0) + Counter(Tail(sessions))

\* the seconds since logon_time of a controller who is online
OnlineSeconds == {0, 30}

\* the controllers of the live data feed: cid and callsign
OnlineControllers ==
    SUBSET {[cid |-> 1, callsign |-> "DEN_TWR"], [cid |-> 2, callsign |-> "DEN_TWR"],
            [cid |-> 2, callsign |-> "LAX_TWR"]}

ActivityRow(cid, month, minutes) == [cid |-> cid, month |-> month, minutes |-> minutes]

\* the cids of all the stored controllers
RosterControllerCidsMutant == DOMAIN controller

\* GET_ALL_ROSTER_CONTROLLER_CIDS (sql.rs:468-469)
RosterControllerCids == {c \in DOMAIN controller : controller[c].is_on_roster}

\* DELETE_ACTIVITY_FOR_CID (sql.rs:496)
DeleteActivityForCidMutant(table, cid) ==
    SelectSeq(table, LAMBDA row : row.cid # cid \/ row.month # start_of_month)

DeleteActivityForCid(table, cid) == SelectSeq(table, LAMBDA row : row.cid # cid)

\* an update of all the months of the controller
UpdateActivityMutant(table, cid, month, minutes) ==
    [i \in DOMAIN table |->
        IF table[i].cid = cid
        THEN [table[i] EXCEPT !.minutes = minutes] ELSE table[i]]

\* UPDATE_ACTIVITY (sql.rs:503)
UpdateActivity(table, cid, month, minutes) ==
    [i \in DOMAIN table |->
        IF table[i].cid = cid /\ table[i].month = month
        THEN [table[i] EXCEPT !.minutes = minutes] ELSE table[i]]

\* result.rows_affected() of UPDATE_ACTIVITY
RowsAffected(table, cid, month) ==
    Cardinality({i \in DOMAIN table : table[i].cid = cid /\ table[i].month = month})

\* the local state of an activity job between two ticks; guard is the
\* semaphore the job's closure took its permit from, and unfetched the
\* controllers of this run whose sessions could not be fetched (the
\* "Error updating activity" lines of the log); online is the live data the
\* partial job got at its tick, and error the Err that get_atc_sessions
\* returned for the controller at hand
IdleActivityJob ==
    [pc |-> "idle", guard |-> "", faulted |-> FALSE, unfetched |-> {},
     error |-> None, online |-> {}, todo |-> {}, cur |-> None,
     sessions |-> <<>>, seconds_map |-> <<>>, tx |-> None, committed |-> FALSE,
     minutes |-> 0]

ActivityReturned(j, ok) ==
    [IdleActivityJob EXCEPT !.pc = IF ok THEN "ret_ok" ELSE "ret_err",
                            !.guard = j.guard, !.faulted = j.faulted,
                            !.unfetched = j.unfetched]

\* sqlx Transaction: the statements executed on it take effect in the table
\* at commit; dropping it without a commit rolls them back
BeginTx == Some([deleted |-> FALSE, inserted |-> <<>>])

\* SQLite has one writer: from its first write to its end a transaction
\* holds the write lock and the statements of other connections wait
WriteLocked == aj["full"].tx # None /\ aj["full"].tx[1].deleted

Commit(table, cid, tx) ==
    (IF tx.deleted THEN DeleteActivityForCid(table, cid) ELSE table) \o tx.inserted

(***************************************************************************)
(* The full activity job (main.rs:120-140) and                             *)
(* true_up_all_controllers_activity (activity.rs:91-111).                  *)
(***************************************************************************)
Lowest(S) == CHOOSE c \in S : \A d \in S : c <= d

\* the loop over the on-roster controllers (activity.rs:101-109), in the
\* order of the index on cid
FullActivityNext(j) ==
    IF j.todo = {}
    THEN ActivityReturned(j, TRUE)
    ELSE [IdleActivityJob EXCEPT !.pc = "fetch", !.guard = j.guard,
                                 !.faulted = j.faulted,
                                 !.unfetched = j.unfetched,
                                 !.cur = Some(Lowest(j.todo)),
                                 !.todo = j.todo \ {Lowest(j.todo)}]

\* the Err values of rest_api::get_atc_sessions: a response whose status is
\* not a success (the rate limit's 429 or another), a body that does not
\* parse, a request that failed
SessionErrors ==
    {[err |-> "InvalidStatusCode", code |-> 429],
     [err |-> "InvalidStatusCode", code |-> 500],
     [err |-> "FailedJsonParse", code |-> 0],
     [err |-> "ReqwestError", code |-> 0]}

\* activity.rs:36: the match arm that sleeps
BacksOff(e) == e.err = "InvalidStatusCode"

\* main.rs:132 `let _ = roster_semaphore.acquire().await.unwrap();`: the job
\* waits for a permit of roster_semaphore, which is dropped at the end of the
\* statement.  activity.rs:93-95: GET_ALL_ROSTER_CONTROLLER_CIDS
FullActivityTick ==
    /\ aj["full"].pc = "idle"
    /\ runs < MaxRuns
    /\ runs' = runs + 1
    /\ roster_semaphore > 0
    /\ roster_semaphore' = Release(Acquire(roster_semaphore))
    /\ \E ok \in StoreOutcomes :
         /\ Spend(ok)
         /\ aj' = [aj EXCEPT !["full"] =
                     IF ok
                     THEN FullActivityNext([IdleActivityJob EXCEPT
                                              !.guard = "roster_semaphore",
                                              !.todo = RosterControllerCids])
                     ELSE ActivityReturned(
                            [IdleActivityJob EXCEPT !.guard = "roster_semaphore",
                                                    !.faulted = TRUE], FALSE)]
    /\ UNCHANGED <<noShowVars, sweepVars, activity, controller, certification, rosterJobVars, activity_semaphore>>

\* activity.rs:32-59: get the sessions (an error ends this controller's
\* true-up) and group them by month.  The panic of an unwrap is not caught:
\* the job's future runs in main's task (main.rs:203-207), so the job stops
\* where it is, pc "panicked", and does not return.
\* The arm `Err(VatsimUtilError::InvalidStatusCode(code))` (activity.rs:36-40)
\* takes every status code and sleeps 30 seconds before it bails.
TrueUpFetch ==
    /\ aj["full"].pc = "fetch"
    /\ \E sessions_res \in {None} \cup {Some(e) : e \in SessionErrors} :
         IF sessions_res # None
         THEN aj' = [aj EXCEPT !["full"].pc = IF BacksOff(sessions_res[1])
                                              THEN "backoff" ELSE "sleep",
                               !["full"].error = sessions_res,
                               !["full"].unfetched = @ \cup {aj["full"].cur[1]}]
         ELSE \E sessions \in SessionLists :
                IF UnwrapPanics(sessions)
                THEN aj' = [aj EXCEPT !["full"].pc = "panicked",
                                      !["full"].sessions = sessions]
                ELSE aj' = [aj EXCEPT !["full"].pc = "tx_begin",
                                      !["full"].sessions = sessions,
                                      !["full"].seconds_map = SecondsMap(sessions, <<>>)]
    /\ UNCHANGED <<noShowVars, sweepVars, activity, controller, certification, rosterJobVars, guardVars,
                   faultsLeft, runs>>

\* after the backoff the job goes straight on to the next controller
TrueUpBackoffMutant ==
    /\ aj["full"].pc = "backoff"
    /\ aj' = [aj EXCEPT !["full"] = FullActivityNext(aj["full"])]
    /\ UNCHANGED <<noShowVars, sweepVars, activity, controller, certification, rosterJobVars, guardVars,
                   faultsLeft, runs>>

\* activity.rs:38-39: the 30 seconds of the arm go by and the function bails
TrueUpBackoff ==
    /\ aj["full"].pc = "backoff"
    /\ aj' = [aj EXCEPT !["full"].pc = "sleep"]
    /\ UNCHANGED <<noShowVars, sweepVars, activity, controller, certification, rosterJobVars, guardVars,
                   faultsLeft, runs>>

\* activity.rs:62  db.begin()
TxBegin ==
    /\ aj["full"].pc = "tx_begin"
    /\ \E ok \in StoreOutcomes :
         /\ Spend(ok)
         /\ LET j == aj["full"]
            IN  aj' = [aj EXCEPT !["full"] =
                         IF ok THEN [j EXCEPT !.pc = "tx_delete", !.tx = BeginTx]
                         ELSE [Fault(j, FALSE) EXCEPT !.pc = "sleep"]]
    /\ UNCHANGED <<noShowVars, sweepVars, activity, controller, certification, rosterJobVars, guardVars, runs>>

\* the statement after this one: an insert while seconds_map has a month left
AfterStatement(seconds_map) ==
    IF DOMAIN seconds_map = {} THEN "tx_commit" ELSE "tx_insert"

\* activity.rs:64-68  DELETE_ACTIVITY_FOR_CID on the transaction; on an error
\* the function returns and the transaction is dropped
TxDeleteMutant ==
    /\ aj["full"].pc = "tx_delete"
    /\ \E ok \in StoreOutcomes :
         /\ Spend(ok)
         /\ LET j == aj["full"]
            IN  /\ activity' = IF ok THEN DeleteActivityForCid(activity, j.cur[1])
                               ELSE activity
                /\ aj' = [aj EXCEPT !["full"] =
                            IF ok
                            THEN [j EXCEPT !.pc = AfterStatement(j.seconds_map)]
                            ELSE [Fault(j, FALSE) EXCEPT !.pc = "sleep", !.tx = None]]
    /\ UNCHANGED <<noShowVars, sweepVars, controller, certification, rosterJobVars, guardVars, runs>>

TxDelete ==
    /\ aj["full"].pc = "tx_delete"
    /\ \E ok \in StoreOutcomes :
         /\ Spend(ok)
         /\ LET j == aj["full"]
            IN  aj' = [aj EXCEPT !["full"] =
                         IF ok
                         THEN [j EXCEPT !.pc = AfterStatement(j.seconds_map),
                                        !.tx = Some([j.tx[1] EXCEPT !.deleted = TRUE])]
                         ELSE [Fault(j, FALSE) EXCEPT !.pc = "sleep", !.tx = None]]
    /\ UNCHANGED <<noShowVars, sweepVars, activity, controller, certification, rosterJobVars, guardVars, runs>>

\* activity.rs:70-79  INSERT_INTO_ACTIVITY on the transaction for the next
\* month of seconds_map, a HashMap, in whatever order it iterates
TxInsert ==
    /\ aj["full"].pc = "tx_insert"
    /\ \E ok \in StoreOutcomes, month \in DOMAIN aj["full"].seconds_map :
         /\ Spend(ok)
         /\ LET j == aj["full"]
                row == ActivityRow(j.cur[1], month, RoundMinutes(j.seconds_map[month]))
                left == Without(j.seconds_map, month)
            IN  aj' = [aj EXCEPT !["full"] =
                         IF ok
                         THEN [j EXCEPT !.pc = AfterStatement(left),
                                        !.seconds_map = left,
                                        !.tx = Some([j.tx[1] EXCEPT
                                                       !.inserted = Append(j.tx[1].inserted, row)])]
                         ELSE [Fault(j, FALSE) EXCEPT !.pc = "sleep", !.tx = None]]
    /\ UNCHANGED <<noShowVars, sweepVars, activity, controller, certification, rosterJobVars, guardVars, runs>>

\* activity.rs:81  tx.commit()
TxCommit ==
    /\ aj["full"].pc = "tx_commit"
    /\ \E ok \in StoreOutcomes :
         /\ Spend(ok)
         /\ LET j == aj["full"]
            IN  /\ activity' = IF ok THEN Commit(activity, j.cur[1], j.tx[1]) ELSE activity
                /\ aj' = [aj EXCEPT !["full"] =
                            [Fault(j, ok) EXCEPT !.pc = "sleep", !.tx = None,
                                                 !.committed = ok]]
    /\ UNCHANGED <<noShowVars, sweepVars, controller, certification, rosterJobVars, guardVars, runs>>

\* the error of a controller's true-up ends the run
TrueUpSleepMutant ==
    /\ aj["full"].pc = "sleep"
    /\ aj' = [aj EXCEPT !["full"] =
                IF aj["full"].cur[1] \in aj["full"].unfetched
                THEN ActivityReturned(aj["full"], FALSE)
                ELSE FullActivityNext(aj["full"])]
    /\ UNCHANGED <<noShowVars, sweepVars, activity, controller, certification, rosterJobVars, guardVars,
                   faultsLeft, runs>>

\* activity.rs:104-108: an error is logged; the job sleeps 8 seconds and goes
\* on to the next controller
TrueUpSleep ==
    /\ aj["full"].pc = "sleep"
    /\ aj' = [aj EXCEPT !["full"] = FullActivityNext(aj["full"])]
    /\ UNCHANGED <<noShowVars, sweepVars, activity, controller, certification, rosterJobVars, guardVars,
                   faultsLeft, runs>>

(***************************************************************************)
(* The partial activity job (main.rs:98-118) and                           *)
(* update_online_controller_activity (activity.rs:157-192).                *)
(***************************************************************************)
\* the loop over online_controllers (activity.rs:172-189): controllers off the
\* roster or outside the facility are passed over
PartialActivityNext(j) ==
    IF j.todo = {}
    THEN ActivityReturned(j, TRUE)
    ELSE [IdleActivityJob EXCEPT !.pc = "spot_fetch", !.guard = j.guard,
                                 !.faulted = j.faulted, !.online = j.online,
                                 !.cur = Some(Lowest(j.todo)),
                                 !.todo = j.todo \ {Lowest(j.todo)}]

\* every online controller of the roster, whatever the position
SpotUpdatedMutant(online_controllers, on_roster_cids) ==
    {c.cid : c \in {o \in online_controllers : o.cid \in on_roster_cids}}

SpotUpdated(online_controllers, on_roster_cids) ==
    {c.cid : c \in {o \in online_controllers :
                      /\ o.cid \in on_roster_cids
                      /\ position_in_facility_airspace(o.callsign)}}

\* main.rs:110 `if activity_semaphore.try_acquire().is_err() { return; }`: a
\* permit that is got is dropped before the update is called.
\* activity.rs:158-169: GET_ALL_ROSTER_CONTROLLER_CIDS, then the live data
PartialActivityTick ==
    /\ aj["partial"].pc = "idle"
    /\ runs < MaxRuns
    /\ runs' = runs + 1
    /\ IF activity_semaphore = 0
       THEN UNCHANGED <<activity_semaphore, faultsLeft, aj>>
       ELSE /\ activity_semaphore' = Release(Acquire(activity_semaphore))
            /\ \E ok \in StoreOutcomes, fetched \in BOOLEAN :
                 /\ Spend(ok)
                 /\ IF ~ok \/ ~fetched
                    THEN aj' = [aj EXCEPT !["partial"] =
                                  ActivityReturned(
                                    Fault([IdleActivityJob EXCEPT
                                             !.guard = "activity_semaphore"], ok), FALSE)]
                    ELSE \E online_controllers \in OnlineControllers :
                           aj' = [aj EXCEPT !["partial"] =
                                    PartialActivityNext([IdleActivityJob EXCEPT
                                       !.guard = "activity_semaphore",
                                       !.online = online_controllers,
                                       !.todo = SpotUpdated(online_controllers,
                                                            RosterControllerCids)])]
    /\ UNCHANGED <<noShowVars, sweepVars, activity, controller, certification, rosterJobVars, roster_semaphore>>

\* activity.rs:121-131: the sessions since the start of the month (an error
\* ends this controller's update) and the minutes with the time online
SpotFetch ==
    /\ aj["partial"].pc = "spot_fetch"
    /\ \E fetched \in BOOLEAN :
         IF ~fetched
         THEN aj' = [aj EXCEPT !["partial"].pc = "spot_sleep"]
         ELSE \E sessions \in SessionLists, online_seconds \in OnlineSeconds :
                IF UnwrapPanics(sessions)
                THEN aj' = [aj EXCEPT !["partial"].pc = "panicked",
                                      !["partial"].sessions = sessions]
                ELSE aj' = [aj EXCEPT !["partial"].pc = "spot_update",
                                      !["partial"].minutes =
                                          RoundMinutes(Counter(sessions) + online_seconds)]
    /\ UNCHANGED <<noShowVars, sweepVars, activity, controller, certification, rosterJobVars, guardVars,
                   faultsLeft, runs>>

\* activity.rs:134-141  UPDATE_ACTIVITY; no row affected: an insert follows
SpotUpdate ==
    /\ aj["partial"].pc = "spot_update"
    /\ ~WriteLocked
    /\ \E ok \in StoreOutcomes :
         /\ Spend(ok)
         /\ LET j == aj["partial"]
                cid == j.cur[1]
            IN  /\ activity' = IF ok THEN UpdateActivity(activity, cid, start_of_month,
                                                         j.minutes)
                               ELSE activity
                /\ aj' = [aj EXCEPT !["partial"] =
                            [Fault(j, ok) EXCEPT !.pc =
                               IF ok /\ RowsAffected(activity, cid, start_of_month) = 0
                               THEN "spot_insert" ELSE "spot_sleep"]]
    /\ UNCHANGED <<noShowVars, sweepVars, controller, certification, rosterJobVars, guardVars, runs>>

\* activity.rs:144-150  INSERT_INTO_ACTIVITY
SpotInsert ==
    /\ aj["partial"].pc = "spot_insert"
    /\ ~WriteLocked
    /\ \E ok \in StoreOutcomes :
         /\ Spend(ok)
         /\ LET j == aj["partial"]
            IN  /\ activity' = IF ok THEN Append(activity,
                                            ActivityRow(j.cur[1], start_of_month, j.minutes))
                               ELSE activity
                /\ aj' = [aj EXCEPT !["partial"] = [Fault(j, ok) EXCEPT !.pc = "spot_sleep"]]
    /\ UNCHANGED <<noShowVars, sweepVars, controller, certification, rosterJobVars, guardVars, runs>>

\* activity.rs:182-188: an error is logged; the job sleeps 8 seconds and goes
\* on to the next controller
SpotSleep ==
    /\ aj["partial"].pc = "spot_sleep"
    /\ aj' = [aj EXCEPT !["partial"] = PartialActivityNext(aj["partial"])]
    /\ UNCHANGED <<noShowVars, sweepVars, activity, controller, certification, rosterJobVars, guardVars,
                   faultsLeft, runs>>

\* main.rs:113-115 and 134-137: the closure logs the result and the job is
\* over until its next tick
ActivityJobReturn(n) ==
    /\ aj[n].pc \in {"ret_ok", "ret_err"}
    /\ aj' = [aj EXCEPT ![n] = IdleActivityJob]
    /\ UNCHANGED <<noShowVars, sweepVars, activity, controller, certification, rosterJobVars, guardVars,
                   faultsLeft, runs>>

(***************************************************************************)
(* Solo certifications: the sweep of vzdv-tasks/src/solo_cert.rs and the   *)
(* site's post_new_solo_cert.  A solo_cert row is kept with its id, cid,   *)
(* position and expiration_date; time is counted in periods of 45 days.    *)
(***************************************************************************)
Positions == {"TWR", "APP"}

\* controller.rs:431 `now.checked_add_days(chrono::Days::new(45))`
SoloValidity == 1

NextId(table) ==
    IF table = {} THEN 1
    ELSE (CHOOSE r \in table : \A q \in table : q.id <= r.id).id + 1

\* post_new_solo_cert (controller.rs:402-466): CREATE_SOLO_CERT for a
\* controller of the store; the site issues at most MaxSoloCerts of them
PostNewSoloCert ==
    /\ issued < MaxSoloCerts
    /\ issued' = issued + 1
    /\ \E cid \in DOMAIN controller, position \in Positions :
         solo_cert' = solo_cert \cup
            {[id |-> NextId(solo_cert), cid |-> cid, position |-> position,
              expiration_date |-> now + SoloValidity]}
    /\ UNCHANGED <<now, sj>>
    /\ UNCHANGED <<noShowVars, activityVars, controller, certification, rosterJobVars, guardVars,
                   faultsLeft, runs>>

\* time passes
ClockTick ==
    /\ now < MaxNow
    /\ now' = now + 1
    /\ UNCHANGED <<solo_cert, issued, sj>>
    /\ UNCHANGED <<noShowVars, activityVars, controller, certification, rosterJobVars, guardVars,
                   faultsLeft, runs>>

\* the local state of the sweep between two ticks
IdleSweep ==
    [pc |-> "idle", now |-> 0, todo |-> {}, cur |-> None, certs |-> {},
     read |-> {}, matching |-> {}]

SweepReturned(j, ok) ==
    [j EXCEPT !.pc = IF ok THEN "ret_ok" ELSE "ret_err",
              !.todo = {}, !.cur = None, !.certs = {}]

\* solo_cert.rs:15 `cert.expiration_date < now`
ExpiredMutant(cert, at) == cert.expiration_date <= at

Expired(cert, at) == cert.expiration_date < at

LowestId(rows) == CHOOSE r \in rows : \A q \in rows : r.id <= q.id

\* the loop over solo_certs (solo_cert.rs:14-48) at the next expired row
SoloNext(j) ==
    LET expired == {cert \in j.todo : Expired(cert, j.now)}
    IN  IF expired = {}
        THEN SweepReturned(j, TRUE)
        ELSE [j EXCEPT !.pc = "solo_delete", !.cur = Some(LowestId(expired)),
                       !.todo = expired \ {LowestId(expired)}, !.certs = {}]

\* the certification of a solo cert's controller for its position
Matching(cert, certs) == {c \in certs : c.cid = cert.cid /\ c.name = cert.position}

\* main.rs:142-154 and solo_cert.rs:9-12: GET_ALL_SOLO_CERTS, then Utc::now()
SoloSweepTick ==
    /\ sj.pc = "idle"
    /\ runs < MaxRuns
    /\ runs' = runs + 1
    /\ \E ok \in StoreOutcomes :
         /\ Spend(ok)
         /\ sj' = IF ~ok THEN SweepReturned(IdleSweep, FALSE)
                  ELSE SoloNext([IdleSweep EXCEPT
                         !.now = now, !.todo = solo_cert, !.read = solo_cert,
                         !.matching =
                            {c.id : c \in
                               {m \in certification :
                                  /\ m.value = "solo"
                                  /\ \E cert \in solo_cert :
                                       Expired(cert, now) /\ m \in Matching(cert, certification)}}])
    /\ UNCHANGED <<solo_cert, issued, now>>
    /\ UNCHANGED <<noShowVars, activityVars, controller, certification, rosterJobVars, guardVars>>

\* DELETE_SOLO_CERT (sql.rs:589)
DeleteSoloCert(table, id) == {r \in table : r.id # id}

\* solo_cert.rs:21-24  DELETE_SOLO_CERT; an error ends the sweep
SoloDelete ==
    /\ sj.pc = "solo_delete"
    /\ \E ok \in StoreOutcomes :
         /\ Spend(ok)
         /\ solo_cert' = IF ok THEN DeleteSoloCert(solo_cert, sj.cur[1].id) ELSE solo_cert
         /\ sj' = IF ok THEN [sj EXCEPT !.pc = "solo_certs"] ELSE SweepReturned(sj, FALSE)
    /\ UNCHANGED <<issued, now>>
    /\ UNCHANGED <<noShowVars, activityVars, controller, certification, rosterJobVars, guardVars, runs>>

\* solo_cert.rs:33 `c_cert.value == "solo"` over the rows read
SoloValuedMutant(certs) == {c \in certs : c.value = "solo" /\ c.name = "APP"}

SoloValued(certs) == {c \in certs : c.value = "solo"}

\* the loop over controller_certs (solo_cert.rs:31-46) at the next row of
\* value "solo"
SoloNextCert(j) ==
    IF SoloValued(j.certs) = {} THEN SoloNext(j) ELSE [j EXCEPT !.pc = "solo_revert"]

\* solo_cert.rs:26-30  GET_ALL_CERTIFICATIONS_FOR; an error ends the sweep
SoloGetCerts ==
    /\ sj.pc = "solo_certs"
    /\ \E ok \in StoreOutcomes :
         /\ Spend(ok)
         /\ sj' = IF ok
                  THEN SoloNextCert([sj EXCEPT !.certs = CertificationsFor(sj.cur[1].cid)])
                  ELSE SweepReturned(sj, FALSE)
    /\ UNCHANGED <<solo_cert, issued, now>>
    /\ UNCHANGED <<noShowVars, activityVars, controller, certification, rosterJobVars, guardVars, runs>>

\* UPDATE_CERTIFICATION (sql.rs:489-490)
UpdateCertification(table, id, value, changed_on, set_by) ==
    {IF c.id = id
     THEN [c EXCEPT !.value = value, !.changed_on = changed_on, !.set_by = set_by]
     ELSE c : c \in table}

\* solo_cert.rs:38-44  UPDATE_CERTIFICATION to "training" with the row's own
\* changed_on and set_by; an error ends the sweep
SoloRevert ==
    /\ sj.pc = "solo_revert"
    /\ \E ok \in StoreOutcomes :
         /\ Spend(ok)
         /\ LET c_cert == LowestId(SoloValued(sj.certs))
            IN  /\ certification' =
                     IF ok THEN UpdateCertification(certification, c_cert.id, "training",
                                                    c_cert.changed_on, c_cert.set_by)
                     ELSE certification
                /\ sj' = IF ok THEN SoloNextCert([sj EXCEPT !.certs = sj.certs \ {c_cert}])
                         ELSE SweepReturned(sj, FALSE)
    /\ UNCHANGED <<solo_cert, issued, now>>
    /\ UNCHANGED <<noShowVars, activityVars, controller, rosterJobVars, guardVars, runs>>

\* main.rs:149-151: the closure logs an error; the sweep is over until its
\* next tick
SweepReturn ==
    /\ sj.pc \in {"ret_ok", "ret_err"}
    /\ sj' = IdleSweep
    /\ UNCHANGED <<solo_cert, issued, now>>
    /\ UNCHANGED <<noShowVars, activityVars, controller, certification, rosterJobVars, guardVars,
                   faultsLeft, runs>>

(***************************************************************************)
(* No-show entries: the sweep of vzdv-tasks/src/no_show_expiration.rs and  *)
(* the site's post_new_no_show.  A no_show row is kept with its id, cid    *)
(* and created_date; a DateTime<Utc> is a date and an hour of the day.     *)
(***************************************************************************)
Instant(y, m, d, h) == [year |-> y, month |-> m, day |-> d, hour |-> h]

\* the instants the clock passes through
Instants ==
    << Instant(2023, 8, 31, 12), Instant(2023, 9, 1, 12), Instant(2024, 2, 29, 11),
       Instant(2024, 2, 29, 12), Instant(2024, 3, 1, 12), Instant(2024, 3, 2, 12) >>

\* the order of DateTime<Utc>
Stamp(t) == ((t.year * 12 + (t.month - 1)) * 31 + (t.day - 1)) * 24 + t.hour

IsLeap(y) == (y % 4 = 0 /\ y % 100 # 0) \/ y % 400 = 0

DaysIn(y, m) ==
    IF m = 2 THEN (IF IsLeap(y) THEN 29 ELSE 28)
    ELSE IF m \in {4, 6, 9, 11} THEN 30 ELSE 31

\* chrono's checked_add_months: the same day of the month that many months
\* later, or the last day of that month when it is shorter; the time of day
\* is kept.  (It is None only beyond chrono's range of years.)
AddMonths(t, months) ==
    LET total == t.year * 12 + (t.month - 1) + months
        y == total \div 12
        m == (total % 12) + 1
    IN  Instant(y, m, IF t.day > DaysIn(y, m) THEN DaysIn(y, m) ELSE t.day, t.hour)

NoShowMonths == 6

\* no_show_expiration.rs:12-16
HasExpiredMutant(entry, at) ==
    Stamp(AddMonths(entry.created_date, NoShowMonths)) <= Stamp(at)

HasExpired(entry, at) ==
    Stamp(AddMonths(entry.created_date, NoShowMonths)) < Stamp(at)

\* the local state of the no-show sweep between two ticks
IdleNoShow == [pc |-> "idle", now |-> Instants[1], todo |-> {}, cur |-> None, read |-> {}]

NoShowReturned(j, ok) ==
    [j EXCEPT !.pc = IF ok THEN "ret_ok" ELSE "ret_err", !.todo = {}, !.cur = None]

\* the loop over no_shows (no_show_expiration.rs:11-32) at the next expired
\* entry
NoShowNext(j) ==
    LET expired == {entry \in j.todo : HasExpired(entry, j.now)}
    IN  IF expired = {}
        THEN NoShowReturned(j, TRUE)
        ELSE [j EXCEPT !.pc = "ns_delete", !.cur = Some(LowestId(expired)),
                       !.todo = expired \ {LowestId(expired)}]

\* main.rs:156-167 and no_show_expiration.rs:8-9: GET_ALL_NO_SHOW, then
\* Utc::now()
NoShowSweepTick ==
    /\ nsj.pc = "idle"
    /\ runs < MaxRuns
    /\ runs' = runs + 1
    /\ \E ok \in StoreOutcomes :
         /\ Spend(ok)
         /\ nsj' = IF ~ok THEN NoShowReturned(IdleNoShow, FALSE)
                   ELSE NoShowNext([IdleNoShow EXCEPT !.now = utc_now, !.todo = no_show,
                                                      !.read = no_show])
    /\ UNCHANGED <<no_show, utc_now>>
    /\ UNCHANGED <<sweepVars, activityVars, controller, certification, rosterJobVars,
                   guardVars>>

\* DELETE_NO_SHOW_ENTRY (sql.rs:596)
DeleteNoShowEntry(table, id) == {r \in table : r.id # id}

\* no_show_expiration.rs:19-22  DELETE_NO_SHOW_ENTRY; an error ends the sweep
NoShowDelete ==
    /\ nsj.pc = "ns_delete"
    /\ \E ok \in StoreOutcomes :
         /\ Spend(ok)
         /\ no_show' = IF ok THEN DeleteNoShowEntry(no_show, nsj.cur[1].id) ELSE no_show
         /\ nsj' = IF ok THEN NoShowNext(nsj) ELSE NoShowReturned(nsj, FALSE)
    /\ UNCHANGED utc_now
    /\ UNCHANGED <<sweepVars, activityVars, controller, certification, rosterJobVars,
                   guardVars, runs>>

\* main.rs:161-164: the closure logs an error; the sweep is over until its
\* next tick
NoShowReturn ==
    /\ nsj.pc \in {"ret_ok", "ret_err"}
    /\ nsj' = IdleNoShow
    /\ UNCHANGED <<no_show, utc_now>>
    /\ UNCHANGED <<sweepVars, activityVars, controller, certification, rosterJobVars,
                   guardVars, faultsLeft, runs>>

\* post_new_no_show (admin.rs:1210-1275): CREATE_NEW_NO_SHOW_ENTRY for a
\* controller of the store, created_date being Utc::now()
PostNewNoShow ==
    /\ Cardinality(no_show) < MaxNoShows
    /\ \E cid \in DOMAIN controller :
         no_show' = no_show \cup
            {[id |-> NextId(no_show), cid |-> cid, created_date |-> utc_now]}
    /\ UNCHANGED <<utc_now, nsj>>
    /\ UNCHANGED <<sweepVars, activityVars, controller, certification, rosterJobVars,
                   guardVars, faultsLeft, runs>>

\* time passes
ClockAdvance ==
    /\ \E i \in DOMAIN Instants :
         /\ Stamp(Instants[i]) > Stamp(utc_now)
         /\ utc_now' = Instants[i]
    /\ UNCHANGED <<no_show, nsj>>
    /\ UNCHANGED <<sweepVars, activityVars, controller, certification, rosterJobVars,
                   guardVars, faultsLeft, runs>>

(***************************************************************************)
(* The roster specification: both roster jobs and the site's requests.     *)
(***************************************************************************)
\* a controller who held the mentor role and a ground certification and was
\* taken off the roster by an earlier sync (which left the certification,
\* roster.rs:140)
InitController ==
    [c \in {1} |->
        [rating |-> 5, home_facility |-> "", is_on_roster |-> FALSE,
         join_date |-> None, roles |-> Join(<<"MTR">>),
         operating_initials |-> None, status |-> Some("ACTIVE"),
         discord_id |-> Some("D1"), loa_until |-> Some("2024-06-01T00:00:00Z")]]

InitCertification ==
    {[id |-> 1, cid |-> 1, name |-> "GND", value |-> "certified",
      changed_on |-> 0, set_by |-> 0]}

Init ==
    /\ controller = InitController
    /\ certification = InitCertification
    /\ ipc = {}
    /\ roster_semaphore = 1
    /\ activity_semaphore = 1
    /\ rj = [n \in {"partial", "full"} |-> IdleJob]
    /\ registry = None
    /\ faultsLeft = MaxFaults
    /\ runs = 0
    /\ next_uuid = 1
    /\ attempts = [u \in 1..MaxRequests |-> 0]
    /\ ipcDeleteFailed = FALSE
    /\ prev = None
    /\ activity = <<>>
    /\ aj = [n \in {"partial", "full"} |-> IdleActivityJob]
    /\ solo_cert = {}
    /\ issued = 0
    /\ now = 0
    /\ sj = IdleSweep
    /\ no_show = {}
    /\ utc_now = Instants[1]
    /\ nsj = IdleNoShow

Next ==
    \/ FullRosterTick
    \/ FullDbCids
    \/ FullOffMark
    \/ FullOffCerts
    \/ FullOffDelete
    \/ PartialRosterTick
    \/ PartialIpcDelete
    \/ \E n \in {"partial", "full"} : UcrGet(n)
    \/ \E n \in {"partial", "full"} : UcrUpsert(n)
    \/ \E n \in {"partial", "full"} : UcrInitials(n)
    \/ \E n \in {"partial", "full"} : UcrSetInitials(n)
    \/ \E n \in {"partial", "full"} : JobReturn(n)
    \/ PostVatusaSync

Spec == Init /\ [][Next]_vars

(***************************************************************************)
(* Full roster syncs in succession against one external roster: the        *)
(* registry's answer is fixed, no store statement fails, and nothing else  *)
(* writes to the store.                                                    *)
(***************************************************************************)
InitTwice ==
    /\ controller = InitController
    /\ certification \in {InitCertification, {}}
    /\ ipc = {}
    /\ roster_semaphore = 1
    /\ activity_semaphore = 1
    /\ rj = [n \in {"partial", "full"} |-> IdleJob]
    /\ registry \in {Some(snapshot) : snapshot \in RosterSnapshots}
    /\ faultsLeft = 0
    /\ runs = 0
    /\ next_uuid = 1
    /\ attempts = [u \in 1..MaxRequests |-> 0]
    /\ ipcDeleteFailed = FALSE
    /\ prev = None
    /\ activity = <<>>
    /\ aj = [n \in {"partial", "full"} |-> IdleActivityJob]
    /\ solo_cert = {}
    /\ issued = 0
    /\ now = 0
    /\ sj = IdleSweep
    /\ no_show = {}
    /\ utc_now = Instants[1]
    /\ nsj = IdleNoShow

NextTwice ==
    \/ FullRosterTick
    \/ FullDbCids
    \/ FullOffMark
    \/ FullOffCerts
    \/ FullOffDelete
    \/ UcrGet("full")
    \/ UcrUpsert("full")
    \/ UcrInitials("full")
    \/ UcrSetInitials("full")
    \/ JobReturn("full")

SpecTwice == InitTwice /\ [][NextTwice]_vars

(***************************************************************************)
(* The activity specification: both activity jobs, with every controller   *)
(* but the last on the roster and a row of an earlier month in the         *)
(* activity table.                                                         *)
(***************************************************************************)
StoredControllers ==
    [c \in Cids |->
        IF c < NumCids
        THEN [rating |-> 5, home_facility |-> "ZDV", is_on_roster |-> TRUE,
              join_date |-> Some("2024-01-01T00:00:00Z"), roles |-> <<>>,
              operating_initials |-> Some(Candidates[c]), status |-> Some("ACTIVE"),
              discord_id |-> Some("D1"), loa_until |-> Some("2024-06-01T00:00:00Z")]
        ELSE [rating |-> 5, home_facility |-> "", is_on_roster |-> FALSE,
              join_date |-> None, roles |-> <<>>, operating_initials |-> None,
              status |-> None, discord_id |-> None, loa_until |-> None]]

InitActivity ==
    /\ controller = StoredControllers
    /\ certification = {}
    /\ ipc = {}
    /\ roster_semaphore = 1
    /\ activity_semaphore = 1
    /\ rj = [n \in {"partial", "full"} |-> IdleJob]
    /\ registry = None
    /\ faultsLeft = MaxFaults
    /\ runs = 0
    /\ next_uuid = 1
    /\ attempts = [u \in 1..MaxRequests |-> 0]
    /\ ipcDeleteFailed = FALSE
    /\ prev = None
    /\ activity = <<ActivityRow(1, "2023-12", 7)>>
    /\ aj = [n \in {"partial", "full"} |-> IdleActivityJob]
    /\ solo_cert = {}
    /\ issued = 0
    /\ now = 0
    /\ sj = IdleSweep
    /\ no_show = {}
    /\ utc_now = Instants[1]
    /\ nsj = IdleNoShow

NextActivity ==
    \/ FullActivityTick
    \/ TrueUpFetch
    \/ TrueUpBackoff
    \/ TxBegin
    \/ TxDelete
    \/ TxInsert
    \/ TxCommit
    \/ TrueUpSleep
    \/ PartialActivityTick
    \/ SpotFetch
    \/ SpotUpdate
    \/ SpotInsert
    \/ SpotSleep
    \/ \E n \in {"partial", "full"} : ActivityJobReturn(n)

SpecActivity == InitActivity /\ [][NextActivity]_vars

(***************************************************************************)
(* The sweep specification: the solo cert sweep, the site issuing solo     *)
(* certs and the clock.  Controller 1 is in solo training on two positions *)
(* and holds a solo cert for one of them; controller 2 is in training.     *)
(***************************************************************************)
Cert(id, cid, name, value) ==
    [id |-> id, cid |-> cid, name |-> name, value |-> value, changed_on |-> 0, set_by |-> 9]

InitSweepCertification ==
    {Cert(1, 1, "TWR", "solo"), Cert(2, 1, "APP", "solo"), Cert(3, 2, "TWR", "training")}

InitSweep ==
    /\ controller = StoredControllers
    /\ certification = InitSweepCertification
    /\ ipc = {}
    /\ roster_semaphore = 1
    /\ activity_semaphore = 1
    /\ rj = [n \in {"partial", "full"} |-> IdleJob]
    /\ registry = None
    /\ faultsLeft = MaxFaults
    /\ runs = 0
    /\ next_uuid = 1
    /\ attempts = [u \in 1..MaxRequests |-> 0]
    /\ ipcDeleteFailed = FALSE
    /\ prev = None
    /\ activity = <<>>
    /\ aj = [n \in {"partial", "full"} |-> IdleActivityJob]
    /\ solo_cert = {[id |-> 1, cid |-> 1, position |-> "TWR", expiration_date |-> 1]}
    /\ issued = 0
    /\ now = 0
    /\ sj = IdleSweep
    /\ no_show = {}
    /\ utc_now = Instants[1]
    /\ nsj = IdleNoShow

NextSweep ==
    \/ SoloSweepTick
    \/ SoloDelete
    \/ SoloGetCerts
    \/ SoloRevert
    \/ SweepReturn
    \/ PostNewSoloCert
    \/ ClockTick

SpecSweep == InitSweep /\ [][NextSweep]_vars

(***************************************************************************)
(* Properties of the roster jobs.                                          *)
(***************************************************************************)
InProgress(n) == rj[n].pc \notin {"idle", "ret_ok", "ret_err"}

\* the partial roster job takes up a request it has read
PartialStarts == rj["partial"].pc = "idle" /\ InProgress("partial")'

\* the partial roster job executes a statement that writes to the store: the
\* controller upsert, the operating-initials update or the IPC row deletion
PartialWrites ==
    /\ rj["partial"].pc \in {"ucr_upsert", "ucr_set_ois", "ipc_delete"}
    /\ rj["partial"]' # rj["partial"]

\* C1: while the full roster update is in progress a partial-roster tick is
\* skipped: no step taken while update_roster is running starts
\* partial_update_roster on a request, and none is a write of the partial job
\* to the store.
C1_PartialTickSkippedDuringFull ==
    [][InProgress("full") => ~(PartialStarts \/ PartialWrites)]_vars

\* C3: roles are monotonic under sync: no step of a full or partial roster
\* sync takes a role code out of the role set a controller holds in the store.
C3_RolesMonotonic ==
    [][\A c \in DOMAIN controller :
          RoleSet(controller[c].roles) \subseteq RoleSet(controller'[c].roles)]_vars

\* C4: when a full roster sync has completed, with L the cids it read from the
\* store and E the cids of the fetched roster, the cids it determined to be
\* off the roster are exactly L \ E, it has marked none outside that set, and
\* it has marked every one of them unless a store statement of the run failed.
C4_OffRosterSetIsLocalMinusExternal ==
    rj["full"].pc = "ret_ok" =>
        LET j == rj["full"]
        IN  /\ j.not_on_roster = j.db_cids \ j.ext_cids
            /\ j.marked \subseteq j.db_cids \ j.ext_cids
            /\ ~j.faulted => j.marked = j.db_cids \ j.ext_cids

\* a completed sync that kept a fetched member and marked another controller
C4_Witness ==
    /\ rj["full"].pc = "ret_ok"
    /\ ~rj["full"].faulted
    /\ rj["full"].ext_cids # {}
    /\ rj["full"].marked # {}
    /\ rj["full"].marked = rj["full"].db_cids \ rj["full"].ext_cids

\* C8: no two controllers hold the same non-null operating initials.
C8_OperatingInitialsUnique ==
    \A a, b \in DOMAIN controller :
        (a # b /\ controller[a].operating_initials # None)
            => controller[a].operating_initials # controller[b].operating_initials

\* C9: as long as no DELETE_IPC_MESSAGE statement has failed, a partial roster
\* run that has completed leaves no row it read in the queue, whether the sync
\* of the member succeeded or failed, and no request has caused more than one
\* single-member sync attempt.
C9_DequeuedRowsDeleted ==
    ~ipcDeleteFailed =>
        /\ rj["partial"].pc = "ret_ok"
              => {m.uuid : m \in ipc} \cap rj["partial"].read = {}
        /\ \A u \in DOMAIN attempts : attempts[u] <= 1

\* a completed run that read two requests, failed on a store statement while
\* syncing a member, and deleted both rows
C9_Witness ==
    /\ rj["partial"].pc = "ret_ok"
    /\ Cardinality(rj["partial"].read) = 2
    /\ rj["partial"].faulted
    /\ ~ipcDeleteFailed
    /\ \A u \in rj["partial"].read : attempts[u] = 1
    /\ ipc = {}

\* C10: full roster sync is idempotent: when a full sync has returned Ok and
\* the next one, against the same external roster and with no other write in
\* between, returns Ok, every controller row is identical to what it was
\* after the first, the stored roles value and the operating initials included.
C10_FullSyncIdempotent ==
    (rj["full"].pc = "ret_ok" /\ prev # None) => controller = prev[1]

(***************************************************************************)
(* Properties of the activity jobs.                                        *)
(***************************************************************************)
ActivityInProgress(n) == aj[n].pc \notin {"idle", "ret_ok", "ret_err"}

\* C2: a partial-activity tick is skipped while the full activity true-up is
\* in progress: update_online_controller_activity is never at work on a
\* controller while true_up_all_controllers_activity is.
C2_PartialActivitySkippedDuringFull ==
    ~(ActivityInProgress("full") /\ ActivityInProgress("partial"))

RowsFor(table, cid) == SelectSeq(table, LAMBDA row : row.cid = cid)

FacilitySessions(sessions) ==
    SelectSeq(sessions, LAMBDA s : position_in_facility_airspace(s.callsign))

AggregatedMonths(sessions) ==
    {FacilitySessions(sessions)[i].start : i \in DOMAIN FacilitySessions(sessions)}

RECURSIVE HalfMinutes(_, _)
HalfMinutes(sessions, month) ==
    IF sessions = <<>> THEN 0
    ELSE (IF Head(sessions).start = month
          THEN ParseF32(Head(sessions).minutes_on_callsign)[1] ELSE 0)
         + HalfMinutes(Tail(sessions), month)

\* the minutes of a month: the sum of the sessions' minutes, rounded
AggregatedMinutes(sessions, month) ==
    (HalfMinutes(FacilitySessions(sessions), month) + 1) \div 2

\* C5: the commit of a controller's full true-up leaves, as the controller's
\* activity rows, exactly one row per month in which it has a session in the
\* facility, holding the rounded sum of that month's sessions, and no row of
\* any other month.
C5_ReplaceAllEqualsAggregation ==
    [][(aj["full"].pc = "tx_commit" /\ aj["full"]'.committed) =>
          LET sessions == aj["full"].sessions
              rows == RowsFor(activity', aj["full"].cur[1])
          IN  /\ \A i \in DOMAIN rows : rows[i].month \in AggregatedMonths(sessions)
              /\ \A month \in AggregatedMonths(sessions) :
                    \E i \in DOMAIN rows :
                      /\ rows[i].month = month
                      /\ rows[i].minutes = AggregatedMinutes(sessions, month)
                      /\ \A k \in DOMAIN rows : rows[k].month = month => k = i]_vars

\* a committed true-up of controller 1 whose two sessions of 1.5 and 1 minutes
\* in the facility in one month make a row of 3 minutes, the row of the
\* earlier month gone
C5_Witness ==
    /\ aj["full"].pc = "sleep"
    /\ aj["full"].committed
    /\ aj["full"].cur = Some(1)
    /\ Len(aj["full"].sessions) = 3
    /\ RowsFor(activity, 1) = <<ActivityRow(1, "2024-01", 3)>>

TxPcs == {"tx_begin", "tx_delete", "tx_insert", "tx_commit"}

\* C6: every step of a true-up's transaction other than its successful commit
\* leaves the activity table as it is: when the delete or an insert fails the
\* rows are those from before the transaction, and no other job can read the
\* old rows deleted without the new ones inserted.
C6_TransactionAtomic ==
    [][(aj["full"].pc \in TxPcs /\ aj["full"]' # aj["full"] /\ ~aj["full"]'.committed)
          => activity' = activity]_vars

\* a true-up that deleted, inserted the first of two months and failed on the
\* second insert: the rows are those from before the transaction
C6_Witness ==
    /\ aj["full"].pc = "sleep"
    /\ aj["full"].faulted
    /\ ~aj["full"].committed
    /\ aj["full"].cur = Some(1)
    /\ Cardinality(AggregatedMonths(aj["full"].sessions)) = 2
    /\ Cardinality(DOMAIN aj["full"].seconds_map) = 1
    /\ activity = <<ActivityRow(1, "2023-12", 7)>>

(***************************************************************************)
(* Properties of the solo cert sweep.                                      *)
(***************************************************************************)
\* C7: when a sweep tick has returned Ok, every solo cert it read whose
\* expiration_date was in the past is gone from solo_cert, and every
\* certification that had value "solo" and matched the position of such a
\* solo cert of its controller has value "training".
C7_ExpiredSoloCertCascade ==
    sj.pc = "ret_ok" =>
        /\ \A cert \in sj.read : Expired(cert, sj.now) => cert \notin solo_cert
        /\ \A c \in certification : c.id \in sj.matching => c.value = "training"

\* a sweep that found the solo cert of controller 1 for TWR expired, deleted
\* it and set the TWR certification back to training
C7_Witness ==
    /\ sj.pc = "ret_ok"
    /\ sj.matching = {1}
    /\ \E cert \in sj.read : cert.id = 1 /\ Expired(cert, sj.now)
    /\ solo_cert = {}
    /\ Cert(1, 1, "TWR", "training") \in certification

(***************************************************************************)
(* Error handling of the full roster sync.                                 *)
(***************************************************************************)
\* the statements of update_controller_record
MemberPcs == {"ucr_get", "ucr_upsert", "ucr_ois", "ucr_set_ois"}

\* C11: an error in the processing of one member of the fetched roster stays
\* with that member: whatever a member's processing returns, update_roster
\* goes on to the next member or to the removed-controller check, never to
\* its return; and when it returns Ok every listed member whose processing
\* returned no error has its row, on the roster, and was among the rows the
\* removed-controller check read.
C11_MemberErrorIsolated ==
    [][/\ (rj["full"].pc \in MemberPcs /\ rj["full"]' # rj["full"])
            => rj["full"]'.pc \in MemberPcs \cup {"db_cids"}
       /\ rj["full"]'.pc = "ret_ok"
            => \A c \in rj["full"]'.ext_cids \ rj["full"]'.errored :
                  /\ c \in DOMAIN controller'
                  /\ controller'[c].is_on_roster
                  /\ c \in rj["full"]'.db_cids]_vars

\* a sync of a roster of two members that returned Ok: the processing of
\* member 2 failed and left no row, member 1 is stored on the roster
C11_Witness ==
    /\ rj["full"].pc = "ret_ok"
    /\ rj["full"].ext_cids = {1, 2}
    /\ rj["full"].errored = {2}
    /\ 2 \notin DOMAIN controller
    /\ controller[1].is_on_roster
    /\ controller[1].operating_initials # None

\* C12: when get_roster fails update_roster returns the error in the same
\* step, with the controller, certification and ipc tables as they were; and
\* a job whose sync returned an error does nothing more until its next tick.
C12_FetchFailureLeavesStore ==
    [][/\ (rj["full"].pc = "idle" /\ rj["full"]'.pc # "idle" /\ ~rj["full"]'.fetched)
            => (rj["full"]'.pc = "ret_err" /\ storeVars' = storeVars)
       /\ (rj["full"].pc = "ret_err" /\ rj["full"]' # rj["full"])
            => (rj["full"]' = IdleJob /\ storeVars' = storeVars)]_vars

\* a full roster job whose fetch failed, with the stored controller still off
\* the roster and certified as before
C12_Witness ==
    /\ rj["full"].pc = "ret_err"
    /\ ~rj["full"].fetched
    /\ controller = InitController
    /\ certification = InitCertification

\* a controller row with the fields a removal from the roster clears
Cleared(row) ==
    [row EXCEPT !.is_on_roster = FALSE, !.home_facility = "", !.join_date = None,
                !.operating_initials = None]

\* C13: no step of a roster job deletes a controller row; a step of a full
\* sync leaves the row of a controller absent from the fetched roster as it
\* is or clears it, its roles as they were; and the step that marks the
\* controller off the roster leaves the row with is_on_roster false,
\* home_facility '', join_date and operating_initials NULL.
C13_RemovedControllerKeepsRow ==
    [][\A c \in DOMAIN controller :
          /\ c \in DOMAIN controller'
          /\ (rj["full"]' # rj["full"] /\ rj["full"]'.fetched
                 /\ c \notin rj["full"]'.ext_cids)
               => /\ controller'[c].roles = controller[c].roles
                  /\ controller'[c] \in {controller[c], Cleared(controller[c])}
          /\ c \in rj["full"]'.marked \ rj["full"].marked
               => controller'[c] = Cleared(controller[c])]_vars

\* controller 1, synced as an instructor and mentor by an earlier run, is
\* absent from the roster of a full sync and has been marked off the roster:
\* the row is there, cleared, with the roles it had
C13_Witness ==
    /\ 1 \in rj["full"].marked
    /\ 1 \in DOMAIN controller
    /\ controller[1].rating = 8
    /\ ~controller[1].is_on_roster
    /\ controller[1].home_facility = ""
    /\ controller[1].join_date = None
    /\ controller[1].operating_initials = None
    /\ RoleSet(controller[1].roles) = {"MTR", "INS"}

\* C14: when a full sync in which no store statement failed has returned Ok,
\* no controller it marked off the roster has a certification row left.
C14_OffRosterCertsStripped ==
    (rj["full"].pc = "ret_ok" /\ ~rj["full"].faulted)
        => \A c \in rj["full"].marked : CertificationsFor(c) = {}

(***************************************************************************)
(* The no-show specification: the no-show sweep, the site adding entries   *)
(* and the clock.                                                          *)
(***************************************************************************)
InitNoShow ==
    /\ controller = StoredControllers
    /\ certification = {}
    /\ ipc = {}
    /\ roster_semaphore = 1
    /\ activity_semaphore = 1
    /\ rj = [n \in {"partial", "full"} |-> IdleJob]
    /\ registry = None
    /\ faultsLeft = MaxFaults
    /\ runs = 0
    /\ next_uuid = 1
    /\ attempts = [u \in 1..MaxRequests |-> 0]
    /\ ipcDeleteFailed = FALSE
    /\ prev = None
    /\ activity = <<ActivityRow(1, "2023-12", 7)>>
    /\ aj = [n \in {"partial", "full"} |-> IdleActivityJob]
    /\ solo_cert = {[id |-> 1, cid |-> 1, position |-> "TWR", expiration_date |-> 1]}
    /\ issued = 0
    /\ now = 0
    /\ sj = IdleSweep
    /\ no_show = {}
    /\ utc_now = Instants[1]
    /\ nsj = IdleNoShow

NextNoShow ==
    \/ NoShowSweepTick
    \/ NoShowDelete
    \/ NoShowReturn
    \/ PostNewNoShow
    \/ ClockAdvance

SpecNoShow == InitNoShow /\ [][NextNoShow]_vars

\* C15: when a no-show sweep returns Ok, an entry it read is gone from the
\* no_show table exactly when its created_date plus 6 calendar months is
\* strictly earlier than the sweep's now; and no step of the sweep changes
\* another table.
C15_NoShowDeletedIffExpired ==
    [][/\ nsj'.pc = "ret_ok"
            => \A entry \in nsj'.read :
                  entry \notin no_show'
                    <=> Stamp(AddMonths(entry.created_date, 6)) < Stamp(nsj'.now)
       /\ nsj' # nsj
            => UNCHANGED <<controller, certification, ipc, activity, solo_cert>>]_vars

\* a sweep on 2024-03-01 12:00 that read an entry created 2023-08-31 12:00,
\* six months and a day before, and one created 2023-09-01 12:00, exactly six
\* months before: the first is deleted, the second kept
C15_Witness ==
    /\ nsj.pc = "ret_ok"
    /\ nsj.now = Instant(2024, 3, 1, 12)
    /\ {entry.created_date : entry \in nsj.read}
          = {Instant(2023, 8, 31, 12), Instant(2023, 9, 1, 12)}
    /\ {entry.created_date : entry \in no_show} = {Instant(2023, 9, 1, 12)}

\* C16: when a solo cert sweep returns Ok, no row of solo_cert has an
\* expiration_date earlier than the sweep's now, and every row the sweep read
\* whose expiration_date is not earlier than its now is still there.
C16_ExpiredSoloCertsSwept ==
    sj.pc = "ret_ok"
        => /\ \A cert \in solo_cert : ~(cert.expiration_date < sj.now)
           /\ \A cert \in sj.read :
                 ~(cert.expiration_date < sj.now) => cert \in solo_cert

\* a sweep that read two solo certs, one expired and one expiring at the
\* sweep's now: the first is gone, the second still there
C16_Witness ==
    /\ sj.pc = "ret_ok"
    /\ Cardinality(sj.read) = 2
    /\ \E cert \in sj.read : cert.expiration_date < sj.now /\ cert \notin solo_cert
    /\ \E cert \in sj.read : cert.expiration_date = sj.now /\ cert \in solo_cert

\* C17: the activity table never holds two rows for the same controller and
\* month.
C17_OneRowPerControllerMonth ==
    \A i, k \in DOMAIN activity :
        (activity[i].cid = activity[k].cid /\ activity[i].month = activity[k].month)
            => i = k

\* C19: exclusion is per resource: an activity job takes its permit from the
\* activity guard only, so that it neither waits on nor skips because of a
\* roster job.
C19_ActivityJobsUseActivityGuard ==
    \A n \in {"partial", "full"} : aj[n].guard \in {"", "activity_semaphore"}

(***************************************************************************)
(* The guard specification: the three jobs that take a permit of           *)
(* roster_semaphore (both roster jobs and the full activity job), against  *)
(* one external roster and with one sync request waiting.  The scheduler   *)
(* polls its jobs every 500 ms (main.rs:166-169), so a tick whose job can  *)
(* get its permit is not put off forever.                                  *)
(***************************************************************************)
InitGuard ==
    /\ controller = StoredControllers
    /\ certification = {}
    /\ ipc = {[uuid |-> 1, action |-> "VATUSA_SYNC", data |-> CidText(1)]}
    /\ roster_semaphore = 1
    /\ activity_semaphore = 1
    /\ rj = [n \in {"partial", "full"} |-> IdleJob]
    /\ registry \in {Some(snapshot) : snapshot \in RosterSnapshots}
    /\ faultsLeft = MaxFaults
    /\ runs = 0
    /\ next_uuid = 2
    /\ attempts = [u \in 1..MaxRequests |-> 0]
    /\ ipcDeleteFailed = FALSE
    /\ prev = None
    /\ activity = <<ActivityRow(1, "2023-12", 7)>>
    /\ aj = [n \in {"partial", "full"} |-> IdleActivityJob]
    /\ solo_cert = {}
    /\ issued = 0
    /\ now = 0
    /\ sj = IdleSweep
    /\ no_show = {}
    /\ utc_now = Instants[1]
    /\ nsj = IdleNoShow

NextGuard ==
    \/ FullRosterTick
    \/ FullDbCids
    \/ FullOffMark
    \/ FullOffCerts
    \/ FullOffDelete
    \/ PartialRosterTick
    \/ PartialIpcDelete
    \/ \E n \in {"partial", "full"} : UcrGet(n)
    \/ \E n \in {"partial", "full"} : UcrUpsert(n)
    \/ \E n \in {"partial", "full"} : UcrInitials(n)
    \/ \E n \in {"partial", "full"} : UcrSetInitials(n)
    \/ \E n \in {"partial", "full"} : JobReturn(n)
    \/ FullActivityTick
    \/ TrueUpFetch
    \/ TrueUpBackoff
    \/ TxBegin
    \/ TxDelete
    \/ TxInsert
    \/ TxCommit
    \/ TrueUpSleep
    \/ ActivityJobReturn("full")

SpecGuard ==
    InitGuard /\ [][NextGuard]_vars
        /\ WF_vars(FullRosterTick) /\ WF_vars(FullActivityTick)

C20_FailedFetchIsolated ==
    [][aj["full"]' # aj["full"]
         => /\ \A c \in aj["full"]'.unfetched :
                  RowsFor(activity', c) = RowsFor(activity, c)
            /\ (aj["full"]'.pc = "fetch" /\ aj["full"].pc # "fetch")
                  => aj["full"]'.cur[1] \notin aj["full"].unfetched
            /\ (aj["full"].pc = "fetch" /\ aj["full"]'.pc \notin {"tx_begin", "panicked"})
                  => /\ aj["full"]'.pc \in {"backoff", "sleep"}
                     /\ aj["full"]'.unfetched = aj["full"].unfetched \cup {aj["full"].cur[1]}
            /\ aj["full"].pc = "backoff" => aj["full"]'.pc = "sleep"
            /\ (aj["full"].pc = "sleep" /\ aj["full"].cur[1] \in aj["full"].unfetched)
                  => IF aj["full"].todo = {}
                     THEN aj["full"]'.pc = "ret_ok"
                     ELSE /\ aj["full"]'.pc = "fetch"
                          /\ aj["full"]'.cur[1] \in aj["full"].todo
            /\ aj["full"].unfetched # {} => aj["full"]'.pc # "ret_err"]_vars

\* the fetch for controller 1 failed, and the true-up has gone on to
\* controller 2 and committed its rows
C20_Witness ==
    /\ aj["full"].unfetched = {1}
    /\ aj["full"].pc = "sleep"
    /\ aj["full"].cur = Some(2)
    /\ aj["full"].committed

\* C21: a session record whose minutes_on_callsign is not a number is
\* isolated to that session: no activity job stops at it, the controller's
\* other sessions are aggregated and the run goes on.
C21_MalformedSessionIsolated ==
    \A n \in {"partial", "full"} : aj[n].pc # "panicked"

\* C22: a full true-up clears the stored activity of every controller in the
\* DB: after a run that returns Ok with no failure, a controller that is off
\* the roster has no activity rows.
C22_TrueUpClearsOffRoster ==
    (/\ aj["full"].pc = "ret_ok"
     /\ ~aj["full"].faulted
     /\ aj["full"].unfetched = {})
        => \A c \in DOMAIN controller :
              ~controller[c].is_on_roster => RowsFor(activity, c) = <<>>

\* C23: the roster guard is held for as long as the roster job that took it
\* is running: while either roster job is in progress the semaphore has no
\* permit, and the two roster jobs are never in progress together.
C23_RosterGuardHeldForRun ==
    /\ (\E n \in {"partial", "full"} : InProgress(n)) => roster_semaphore = 0
    /\ ~(InProgress("partial") /\ InProgress("full"))

(***************************************************************************)
(* The roles specification: full roster syncs against an external roster   *)
(* that lists controller 1 with no role, while staff members set roles on  *)
(* the site; no store statement fails.                                     *)
(***************************************************************************)
InitRoles ==
    /\ controller = InitController
    /\ certification = InitCertification
    /\ ipc = {}
    /\ roster_semaphore = 1
    /\ activity_semaphore = 1
    /\ rj = [n \in {"partial", "full"} |-> IdleJob]
    /\ registry \in {Some(snapshot) :
                        snapshot \in [{1} -> {k \in MemberKinds : k.roles = <<>>}]}
    /\ faultsLeft = 0
    /\ runs = 0
    /\ next_uuid = 1
    /\ attempts = [u \in 1..MaxRequests |-> 0]
    /\ ipcDeleteFailed = FALSE
    /\ prev = None
    /\ activity = <<>>
    /\ aj = [n \in {"partial", "full"} |-> IdleActivityJob]
    /\ solo_cert = {}
    /\ issued = 0
    /\ now = 0
    /\ sj = IdleSweep
    /\ no_show = {}
    /\ utc_now = Instants[1]
    /\ nsj = IdleNoShow

NextRoles ==
    \/ FullRosterTick
    \/ FullDbCids
    \/ UcrGet("full")
    \/ UcrUpsert("full")
    \/ UcrInitials("full")
    \/ UcrSetInitials("full")
    \/ JobReturn("full")
    \/ PostSetRoles

SpecRoles == InitRoles /\ [][NextRoles]_vars

\* C24: a role change another writer commits between the sync's read of the
\* controller's row and its upsert is not clobbered: the upsert takes no role
\* code out of the role set the row holds when the upsert writes.
C24_UpsertKeepsStoredRoles ==
    [][(rj["full"].pc = "ucr_upsert" /\ rj["full"]' # rj["full"])
         => \A c \in DOMAIN controller :
               RoleSet(controller[c].roles) \subseteq RoleSet(controller'[c].roles)]_vars

\* the role codes the sync may take from a registry record
SyncedRoles(member) ==
    {member.roles[i].role :
        i \in {k \in DOMAIN member.roles :
                 /\ member.roles[k].facility = "ZDV"
                 /\ member.roles[k].role \in {"ATM", "DATM", "TA", "MTR"}}}
      \cup (IF member.facility = "ZDV" /\ member.rating \in {8, 9, 10}
            THEN {"INS"} ELSE {})

\* C25: the role set the per-member upsert writes is exactly the roles of the
\* row it read, the registry's roles for ZDV among ATM, DATM, TA and MTR, and
\* INS for a home controller with rating 8, 9 or 10; nothing else is added.
C25_UpsertWritesMergedRoles ==
    [][\A n \in {"partial", "full"} :
          (/\ rj[n].pc = "ucr_upsert"
           /\ rj[n]' # rj[n]
           /\ ParseRfc3339Ok(rj[n].cur[1].facility_join)
           /\ faultsLeft' = faultsLeft)
             => LET member == rj[n].cur[1]
                    existing == IF rj[n].record = None THEN {}
                                ELSE RoleSet(rj[n].record[1].roles)
                IN  /\ member.cid \in DOMAIN controller'
                    /\ RoleSet(controller'[member.cid].roles)
                          = existing \cup SyncedRoles(member)]_vars

\* the upsert has written MTR and INS over a row that held MTR, for a home
\* controller with rating 8 whom the registry also reports as EC at ZDV and
\* as TA at ZAB
C25_Witness ==
    \E n \in {"partial", "full"} :
        /\ rj[n].pc = "ucr_ois"
        /\ rj[n].record # None
        /\ RoleSet(rj[n].record[1].roles) = {"MTR"}
        /\ Len(rj[n].cur[1].roles) = 3
        /\ RoleSet(controller[rj[n].cur[1].cid].roles) = {"MTR", "INS"}

\* the row of the member in the store has no operating initials to keep: there
\* is no row, or the row is off the roster
NewToRoster(table, cid) == cid \notin DOMAIN table \/ ~table[cid].is_on_roster

\* C26: the per-member upsert goes on to allocate fresh operating initials if
\* and only if the controller had no row or a row off the roster before the
\* upsert; for a controller already on the roster the member's sync leaves
\* operating_initials as they are.
C26_InitialsOnlyForNewMembers ==
    [][\A n \in {"partial", "full"} :
          (/\ rj[n].pc = "ucr_upsert"
           /\ rj[n]' # rj[n]
           /\ ParseRfc3339Ok(rj[n].cur[1].facility_join)
           /\ faultsLeft' = faultsLeft)
             => LET cid == rj[n].cur[1].cid
                IN  /\ rj[n]'.pc = "ucr_ois" <=> NewToRoster(controller, cid)
                    /\ ~NewToRoster(controller, cid)
                          => controller'[cid].operating_initials
                               = controller[cid].operating_initials]_vars

\* C27: no controller stays on the roster without operating initials: when a
\* full sync has gone through the roster with no failure, no partial sync
\* having run, every listed controller that is on the roster has its
\* operating initials set, whatever failed in the syncs before.
C27_RosterControllersHaveInitials ==
    (/\ rj["full"].pc = "ret_ok"
     /\ ~rj["full"].faulted
     /\ rj["full"].errored = {}
     /\ \A u \in DOMAIN attempts : attempts[u] = 0)
        => \A c \in rj["full"].ext_cids :
              (c \in DOMAIN controller /\ controller[c].is_on_roster)
                 => controller[c].operating_initials # None

\* C28: the sweep of an expired solo cert changes the certification table in
\* one way only: the row of the solo cert's controller for the solo cert's
\* position goes from "solo" to "training", its changed_on and set_by as they
\* were; rows for other positions keep their value.
C28_SweepRevertsMatchingPositionOnly ==
    [][(sj.pc = "solo_revert" /\ certification' # certification)
         => \E c \in certification :
               /\ c.cid = sj.cur[1].cid
               /\ c.name = sj.cur[1].position
               /\ c.value = "solo"
               /\ certification' =
                     (certification \ {c}) \cup {[c EXCEPT !.value = "training"]}]_vars

\* C30: the deletion of an expired solo cert and the revert of the matching
\* certification take effect together: when a sweep has ended, with Ok or
\* with an error, no solo cert it read is gone from solo_cert while its
\* controller's certification for that position still has value "solo".
C30_DeleteAndRevertTogether ==
    sj.pc \in {"ret_ok", "ret_err"}
        => \A cert \in sj.read :
              cert \notin solo_cert
                 => \A c \in Matching(cert, certification) : c.value # "solo"

\* C29: a store failure while one removed controller is handled stays with
\* that controller: when update_roster has returned after reading the cids of
\* the store, its loop has reached, and issued the off-roster update for,
\* every controller of the store that the fetched roster does not list.
C29_OffRosterFailureIsolated ==
    (rj["full"].pc \in {"ret_ok", "ret_err"} /\ rj["full"].db_cids # {})
        => rj["full"].not_on_roster = rj["full"].db_cids \ rj["full"].ext_cids

\* C31: only members of the facility's external roster are put on the
\* roster: no step puts a controller the fetched roster does not list on the
\* roster, or changes the operating initials of one who stays on it.
C31_OnlyRosterMembersMarked ==
    [][\A c \in DOMAIN controller' :
          (/\ registry # None
           /\ c \notin DOMAIN registry[1]
           /\ controller'[c].is_on_roster)
             => /\ c \in DOMAIN controller
                /\ controller[c].is_on_roster
                /\ controller'[c].operating_initials
                      = controller[c].operating_initials]_vars

\* C32: a step of the partial roster job does no roster-membership diffing:
\* it deletes no certification, takes no controller off the roster, clears no
\* home facility, join date or operating initials, and writes no controller
\* row but the one whose cid the request at hand carries.
C32_PartialSyncWritesOnlyRequestedRow ==
    [][rj'["partial"] # rj["partial"] =>
         /\ certification' = certification
         /\ DOMAIN controller \subseteq DOMAIN controller'
         /\ \A c \in DOMAIN controller' :
              \/ /\ c \in DOMAIN controller
                 /\ controller'[c] = controller[c]
              \/ /\ rj["partial"].cur # None
                 /\ c = rj["partial"].cur[1].cid
                 /\ rj["partial"].msgs # <<>>
                 /\ c = ParseCid(Head(rj["partial"].msgs).data)
                 /\ c \in DOMAIN controller =>
                      /\ controller[c].is_on_roster => controller'[c].is_on_roster
                      /\ controller[c].home_facility # ""
                           => controller'[c].home_facility # ""
                      /\ controller[c].join_date # None
                           => controller'[c].join_date # None
                      /\ controller[c].operating_initials # None
                           => controller'[c].operating_initials # None]_vars

\* the partial job has written the row of the requested controller, who was
\* not on the roster, and goes on to allocate operating initials
C32_Witness ==
    /\ rj["partial"].pc = "ucr_ois"
    /\ rj["partial"].cur # None
    /\ rj["partial"].cur[1].cid \in DOMAIN controller
    /\ controller[rj["partial"].cur[1].cid].is_on_roster

(***************************************************************************)
(* The partial activity job alone: no other job writes the activity table. *)
(* The table holds at most one row for a controller and a month, as the    *)
(* jobs leave it when they do not overlap.                                 *)
(***************************************************************************)
StoredActivity ==
    { <<>>,
      <<ActivityRow(1, "2023-12", 7)>>,
      <<ActivityRow(1, "2023-12", 7), ActivityRow(1, start_of_month, 9)>>,
      <<ActivityRow(2, start_of_month, 9), ActivityRow(1, start_of_month, 7)>>,
      <<ActivityRow(2, "2023-12", 7), ActivityRow(2, start_of_month, 9)>> }

AllOnRoster == [c \in Cids |-> StoredControllers[1]]

InitSpot ==
    /\ controller \in {StoredControllers, AllOnRoster}
    /\ certification = {}
    /\ ipc = {}
    /\ roster_semaphore = 1
    /\ activity_semaphore = 1
    /\ rj = [n \in {"partial", "full"} |-> IdleJob]
    /\ registry = None
    /\ faultsLeft = MaxFaults
    /\ runs = 0
    /\ next_uuid = 1
    /\ attempts = [u \in 1..MaxRequests |-> 0]
    /\ ipcDeleteFailed = FALSE
    /\ prev = None
    /\ activity \in StoredActivity
    /\ aj = [n \in {"partial", "full"} |-> IdleActivityJob]
    /\ solo_cert = {}
    /\ issued = 0
    /\ now = 0
    /\ sj = IdleSweep
    /\ no_show = {}
    /\ utc_now = Instants[1]
    /\ nsj = IdleNoShow

NextSpot ==
    \/ PartialActivityTick
    \/ SpotFetch
    \/ SpotUpdate
    \/ SpotInsert
    \/ SpotSleep
    \/ ActivityJobReturn("partial")

SpecSpot == InitSpot /\ [][NextSpot]_vars

\* the rows of the table for other controllers or other months
OtherRows(table, cid, month) ==
    SelectSeq(table, LAMBDA row : row.cid # cid \/ row.month # month)

\* C33: when the partial update of a controller goes through with no other
\* writer, the table holds exactly one row for the controller and the current
\* month, with the minutes just computed; a row that was there is updated in
\* place, a row is added only when the update affected none, and the rows of
\* other controllers and months are unchanged.
C33_SpotUpdateLeavesOneRow ==
    [][LET j == aj["partial"]
       IN  (/\ j.pc \in {"spot_update", "spot_insert"}
            /\ faultsLeft' = faultsLeft)
             => LET cid == j.cur[1]
                IN  IF aj'["partial"].pc = "spot_insert"
                    THEN /\ activity' = activity
                         /\ RowsAffected(activity, cid, start_of_month) = 0
                    ELSE /\ RowsAffected(activity', cid, start_of_month) = 1
                         /\ \A i \in DOMAIN activity' :
                              (activity'[i].cid = cid /\ activity'[i].month = start_of_month)
                                 => activity'[i].minutes = j.minutes
                         /\ OtherRows(activity', cid, start_of_month)
                              = OtherRows(activity, cid, start_of_month)
                         /\ IF RowsAffected(activity, cid, start_of_month) = 0
                            THEN j.pc = "spot_insert" /\ Len(activity') = Len(activity) + 1
                            ELSE j.pc = "spot_update"
                                 /\ \A i \in DOMAIN activity :
                                      /\ i \in DOMAIN activity'
                                      /\ activity'[i].cid = activity[i].cid
                                      /\ activity'[i].month = activity[i].month
                                 /\ Len(activity') = Len(activity)]_vars

\* the update of a controller has left its row for the current month with the
\* minutes computed, beside a row of another month or controller
C33_Witness ==
    /\ aj["partial"].pc = "spot_sleep"
    /\ aj["partial"].cur # None
    /\ aj["partial"].minutes > 0
    /\ Len(activity) = 2
    /\ \E i \in DOMAIN activity :
         activity[i] = ActivityRow(aj["partial"].cur[1], start_of_month,
                                   aj["partial"].minutes)

(***************************************************************************)
(* Both activity jobs over a stored table with rows of both controllers,   *)
(* with the second controller on the roster or off it.                     *)
(***************************************************************************)
SpecStored == InitSpot /\ [][NextActivity]_vars

RowsOf(table, cid) == SelectSeq(table, LAMBDA row : row.cid = cid)

\* C34: a step of the partial activity job changes the rows of a controller
\* only if the live data of its tick showed the controller online on a
\* position in the facility's airspace and the controller is on the roster.
C34_SpotWritesOnlyOnlineRosterControllers ==
    [][aj'["partial"] # aj["partial"] =>
         \A c \in Cids :
             RowsOf(activity', c) # RowsOf(activity, c)
               => /\ c \in RosterControllerCids
                  /\ \E o \in aj["partial"].online :
                       /\ o.cid = c
                       /\ position_in_facility_airspace(o.callsign)]_vars

\* the second controller is online outside the facility and on the roster,
\* the first is being updated, and the table has a row of the second
C34_Witness ==
    /\ aj["partial"].pc = "spot_sleep"
    /\ aj["partial"].cur = Some(1)
    /\ aj["partial"].minutes > 0
    /\ [cid |-> 2, callsign |-> "LAX_TWR"] \in aj["partial"].online
    /\ [cid |-> 2, callsign |-> "DEN_TWR"] \notin aj["partial"].online
    /\ 2 \in RosterControllerCids
    /\ RowsOf(activity, 2) # <<>>
    /\ \E i \in DOMAIN activity :
         activity[i] = ActivityRow(1, start_of_month, aj["partial"].minutes)

C36_BackoffOnlyWhenRateLimited ==
    [][(aj["full"].pc = "fetch" /\ aj'["full"].pc = "backoff")
          => aj'["full"].error = Some([err |-> "InvalidStatusCode", code |-> 429])]_vars

\* C37: in a full activity run the 8 seconds of the rate limit lie between
\* every two session-history calls: the job comes to the call for a
\* controller from its tick or from the sleep that followed the controller
\* before, whose call succeeded or failed, and leaves a call that did not
\* panic for that sleep before it comes to another.
C37_SleepBetweenSessionCalls ==
    [][aj'["full"] # aj["full"] =>
         /\ aj'["full"].pc = "fetch" => aj["full"].pc \in {"idle", "sleep"}
         /\ (aj["full"].pc \notin {"idle", "sleep"} /\ aj["full"].cur # None)
               => /\ aj'["full"].cur = aj["full"].cur
                  /\ aj'["full"].pc \notin {"idle", "ret_ok", "ret_err"}]_vars

\* the call for the first controller failed, and the job has slept and is at
\* the call for the second
C37_Witness ==
    /\ aj["full"].pc = "fetch"
    /\ aj["full"].cur = Some(2)
    /\ aj["full"].unfetched = {1}

\* C38: the upsert of a member by either roster job leaves the fields of an
\* existing controller row that the site owns as they were: loa_until,
\* discord_id and status.
C38_UpsertKeepsLocalFields ==
    [][\A n \in {"partial", "full"} :
          (/\ rj[n].pc = "ucr_upsert"
           /\ rj'[n] # rj[n]
           /\ rj[n].cur[1].cid \in DOMAIN controller)
             => LET cid == rj[n].cur[1].cid
                IN  /\ cid \in DOMAIN controller'
                    /\ controller'[cid].loa_until = controller[cid].loa_until
                    /\ controller'[cid].discord_id = controller[cid].discord_id
                    /\ controller'[cid].status = controller[cid].status]_vars

\* the full job has upserted a member whose row was off the roster, and the
\* row, now on the roster, has its leave, Discord id and status
C38_Witness ==
    /\ rj["full"].pc = "ucr_ois"
    /\ rj["full"].record # None
    /\ LET cid == rj["full"].cur[1].cid
       IN  /\ cid \in DOMAIN controller
           /\ controller[cid].is_on_roster
           /\ controller[cid].loa_until # None
           /\ controller[cid].discord_id # None
           /\ controller[cid].status # None

\* C39: the roles an upsert writes hold no empty role code: for a controller
\* whose row was read with an empty roles string the value written is made of
\* exactly the external roles of the member, with no empty piece, so with no
\* delimiter at its start or end.
C39_NoEmptyRoleCode ==
    [][\A n \in {"partial", "full"} :
          (/\ rj[n].pc = "ucr_upsert"
           /\ rj[n].record # None
           /\ rj[n].record[1].roles = <<>>
           /\ controller' # controller)
             => LET member == rj[n].cur[1]
                    written == controller'[member.cid].roles
                IN  /\ written # <<>> => "" \notin SeqToSet(Split(written))
                    /\ RoleSet(written) = SeqToSet(ExternalRoles(member))]_vars

====
